---- MODULE Spec2Model ----
(***************************************************************************)
(* Model of the Pirsch JavaScript SDK request core: credential validation  *)
(* in the constructor, the tracking and statistics calls of                *)
(* PirschCoreClient, the retry-on-401 protocol of performPost/performGet   *)
(* and the token refresh.  A public call is an asynchronous function: it   *)
(* runs synchronously up to its first transport invocation, and each       *)
(* transport response resumes it.  Every action below is one such          *)
(* synchronous run.                                                        *)
(***************************************************************************)
EXTENDS Integers, Sequences, FiniteSets, TLC

VARIABLES
    ctor,         \* "new" before construction, then "ok" or "failed" (the constructor threw)
    config,       \* the configuration object passed to the constructor
    ctorError,    \* the error the constructor threw, NoError otherwise
    variant,      \* which concrete client was constructed: "node", "web-api" or "web"
    accessMode,   \* this.accessMode: "oauth" | "access-token" ("unset" before construction)
    clientId,     \* this.clientId: TRUE when the field was assigned by the constructor
    accessToken,  \* this.accessToken
    calls,        \* the public calls in flight or finished, one record per slot
    started,      \* number of public calls started so far
    trustedProxyHeaders,  \* this.trustedProxyHeaders of the Node client
    request,      \* the Node request being handled (IncomingMessage)
    element,      \* the PirschHit hitFromRequest returned for it
    twin,         \* a web-api client given the same inputs as the Node client
    location,     \* the browser snippet's page: location.hostname and location.protocol
    navigator,    \* navigator.doNotTrack of the page
    localStorage, \* localStorage.getItem("disable_pirsch") of the page
    pirschConfig, \* the module variable pirschConfig of the browser snippet
    console,      \* the messages the snippet wrote to the console, in order
    xhr,          \* the XMLHttpRequests the snippet sent, in order
    snippet       \* the last call of an exported function of the snippet and how it ended

\* the fields of the client and its calls
clientVars == << ctor, config, ctorError, variant, accessMode, clientId, accessToken, calls, started >>
\* the request handling of the Node client
requestVars == << trustedProxyHeaders, request, element >>

\* the page and the module state of the browser snippet
browserVars == << location, navigator, localStorage, pirschConfig, console, xhr, snippet >>

vars == << ctor, config, ctorError, variant, accessMode, clientId, accessToken, calls, started,
           trustedProxyHeaders, request, element, twin,
           location, navigator, localStorage, pirschConfig, console, xhr, snippet >>

-----------------------------------------------------------------------------
(* Bounds of the model *)

\* largest deviation of a credential's length from the required length
LenSlack == 1
\* longest batch passed to batchHits / batchEvents / batchSessions
MaxBatch == 3
\* longest array the domain endpoint answers with
MaxDomains == 2
\* number of public calls made on one client
MaxCalls == 2
\* longest list of trustedProxyHeaders in a configuration
MaxTrusted == 2

-----------------------------------------------------------------------------
(* Program constants (constants.ts) *)

PIRSCH_CLIENT_ID_LENGTH == 32
PIRSCH_CLIENT_SECRET_LENGTH == 64
PIRSCH_ACCESS_TOKEN_LENGTH == 45
\* "pa_".length
PIRSCH_ACCESS_TOKEN_PREFIX_LENGTH == 3
PIRSCH_IDENTIFICATION_CODE_LENGTH == 32

\* PirschEndpoint
Endpoint ==
    [ token |-> "token", hit |-> "hit", batchHits |-> "hit/batch",
      event |-> "event", batchEvents |-> "event/batch",
      session |-> "session", batchSessions |-> "session/batch",
      domain |-> "domain", visitors |-> "statistics/visitor",
      totalVisitors |-> "statistics/total", keywords |-> "statistics/keywords" ]

\* the value of a property that is not set
Undefined == "<undefined>"

-----------------------------------------------------------------------------
(* The record of a public call.  It comes first in the module because TLC   *)
(* compares records field by field in the order in which the field names   *)
(* first occur: op and pc, which tell apart calls whose arguments are of    *)
(* different kinds, have to precede input and data.                        *)

Slots == { 1 }

Pending == [kind |-> "pending"]
Resolved(v) == [kind |-> "resolved", value |-> v]
Rejected(e) == [kind |-> "rejected", error |-> e]

IdleCall ==
    [ op |-> "none", pc |-> "idle", input |-> Undefined, path |-> "", data |-> Undefined,
      retry |-> TRUE, trace |-> <<>>, outcome |-> Pending ]

NewCall(op, input) == [ IdleCall EXCEPT !.op = op, !.input = input ]

\* the call returns / throws: its promise settles
Finish(rec, outcome) == [ rec EXCEPT !.pc = "done", !.outcome = outcome ]

-----------------------------------------------------------------------------

PIRSCH_REFERRER_QUERY_PARAMETERS == << "ref", "referer", "referrer", "source", "utm_source" >>
PIRSCH_PROXY_HEADERS == << "cf-connecting-ip", "x-forwarded-for", "forwarded", "x-real-ip" >>
PIRSCH_DEFAULT_PROTOCOL == "https"

-----------------------------------------------------------------------------
(* Configurations.  A string credential is abstracted to what the          *)
(* validation reads: its length and, for the access token, whether it      *)
(* starts with PIRSCH_ACCESS_TOKEN_PREFIX.  has* records whether the key   *)
(* is in the configuration object.                                         *)

Around(n) == (n - LenSlack) .. (n + LenSlack)

AccessTokenChoices ==
    { [has |-> FALSE, prefix |-> FALSE, len |-> 0] } \cup
    [ has : {TRUE}, prefix : BOOLEAN,
      len : Around(PIRSCH_ACCESS_TOKEN_LENGTH + PIRSCH_ACCESS_TOKEN_PREFIX_LENGTH) ]

LengthChoices(n) ==
    { [has |-> FALSE, len |-> 0] } \cup [ has : {TRUE}, len : Around(n) ]

\* the configuration objects passed to the server-side clients (which do not
\* read identificationCode) and to the web client
Configurations ==
    [ variant : {"node", "web-api"},
      accessToken : AccessTokenChoices,
      clientId : LengthChoices(PIRSCH_CLIENT_ID_LENGTH),
      clientSecret : LengthChoices(PIRSCH_CLIENT_SECRET_LENGTH),
      identificationCode : { [has |-> FALSE, len |-> 0] } ]
    \cup
    [ variant : {"web"},
      accessToken : AccessTokenChoices,
      clientId : LengthChoices(PIRSCH_CLIENT_ID_LENGTH),
      clientSecret : LengthChoices(PIRSCH_CLIENT_SECRET_LENGTH),
      identificationCode : LengthChoices(PIRSCH_IDENTIFICATION_CODE_LENGTH) ]

NoConfig ==
    [ variant |-> "node",
      accessToken |-> [has |-> FALSE, prefix |-> FALSE, len |-> 0],
      clientId |-> [has |-> FALSE, len |-> 0],
      clientSecret |-> [has |-> FALSE, len |-> 0],
      identificationCode |-> [has |-> FALSE, len |-> 0] ]

\* Errors a constructor throws.  kind is the JavaScript class of the thrown
\* object, msg identifies the message text.
NoError == [kind |-> "none", msg |-> "none"]
InvalidClientIdError == [kind |-> "Error", msg |-> "Invalid Client ID, should be of length 32"]
InvalidAccessTokenPrefixError == [kind |-> "Error", msg |-> "Invalid Access Token, should start with pa_"]
InvalidAccessTokenLengthError == [kind |-> "Error", msg |-> "Invalid Access Token, should be of length 45"]
MissingCredentialsError == [kind |-> "Error", msg |-> "Missing credentials"]
OAuthSecretsInWebClientError == [kind |-> "Error", msg |-> "Do not pass OAuth secrets to the web client"]
SecretsInWebClientError == [kind |-> "Error", msg |-> "Do not pass secrets to the web client"]
InvalidIdentificationCodeError == [kind |-> "Error", msg |-> "Invalid Identification Code, should be of length 32"]
\* reading .length of undefined
UndefinedLengthTypeError == [kind |-> "TypeError", msg |-> "Cannot read properties of undefined (reading 'length')"]

\* PirschCommon.assertOauthCredentials: the error thrown, NoError if none
assertOauthCredentials(id, secret) ==
    IF ~id.has THEN UndefinedLengthTypeError
    ELSE IF id.len # PIRSCH_CLIENT_ID_LENGTH THEN InvalidClientIdError
    ELSE IF ~secret.has THEN UndefinedLengthTypeError
    ELSE IF secret.len # PIRSCH_CLIENT_SECRET_LENGTH THEN InvalidClientIdError
    ELSE NoError

\* the access-token validation with its two checks in the other order
assertAccessTokenCredentials_LengthFirst(token) ==
    IF token.len # PIRSCH_ACCESS_TOKEN_LENGTH + PIRSCH_ACCESS_TOKEN_PREFIX_LENGTH
    THEN InvalidAccessTokenLengthError
    ELSE IF ~token.prefix THEN InvalidAccessTokenPrefixError
    ELSE NoError

\* PirschCommon.assertAccessTokenCredentials: the error thrown, NoError if none
assertAccessTokenCredentials(token) ==
    IF ~token.prefix THEN InvalidAccessTokenPrefixError
    ELSE IF token.len # PIRSCH_ACCESS_TOKEN_LENGTH + PIRSCH_ACCESS_TOKEN_PREFIX_LENGTH
         THEN InvalidAccessTokenLengthError
    ELSE NoError

\* PirschCommon.assertIdentificationCodeCredentials: the error thrown, NoError if none
assertIdentificationCodeCredentials(code) ==
    IF ~code.has THEN UndefinedLengthTypeError
    ELSE IF code.len # PIRSCH_IDENTIFICATION_CODE_LENGTH THEN InvalidIdentificationCodeError
    ELSE NoError

\* the token string a valid configuration carries
ConfiguredToken == "pa_configured"

\* the constructor recording the OAuth mode for an access token
CoreConstructor_OAuthMode(cfg) ==
    IF cfg.accessToken.has
    THEN LET e == assertAccessTokenCredentials(cfg.accessToken)
         IN  [ error |-> e, accessMode |-> IF e = NoError THEN "oauth" ELSE "unset",
               accessToken |-> IF e = NoError THEN ConfiguredToken ELSE "",
               clientId |-> FALSE ]
    ELSE IF cfg.clientId.has \/ cfg.clientSecret.has
    THEN LET e == assertOauthCredentials(cfg.clientId, cfg.clientSecret)
         IN  [ error |-> e, accessMode |-> IF e = NoError THEN "oauth" ELSE "unset",
               accessToken |-> "", clientId |-> (e = NoError) ]
    ELSE [ error |-> MissingCredentialsError, accessMode |-> "unset",
           accessToken |-> "", clientId |-> FALSE ]

\* PirschCoreClient.constructor: the fields it leaves and the error it throws
CoreConstructor(cfg) ==
    IF cfg.accessToken.has
    THEN LET e == assertAccessTokenCredentials(cfg.accessToken)
         IN  [ error |-> e, accessMode |-> IF e = NoError THEN "access-token" ELSE "unset",
               accessToken |-> IF e = NoError THEN ConfiguredToken ELSE "",
               clientId |-> FALSE ]
    ELSE IF cfg.clientId.has \/ cfg.clientSecret.has
    THEN LET e == assertOauthCredentials(cfg.clientId, cfg.clientSecret)
         IN  [ error |-> e, accessMode |-> IF e = NoError THEN "oauth" ELSE "unset",
               accessToken |-> "", clientId |-> (e = NoError) ]
    ELSE [ error |-> MissingCredentialsError, accessMode |-> "unset",
           accessToken |-> "", clientId |-> FALSE ]

\* PirschNodeApiClient.constructor: super(configuration), then own fields
NodeConstructor(cfg) == CoreConstructor(cfg)

\* PirschWebApiClient.constructor: rejects OAuth secrets before super(configuration)
WebApiConstructor(cfg) ==
    IF cfg.clientId.has \/ cfg.clientSecret.has
    THEN [ error |-> OAuthSecretsInWebClientError, accessMode |-> "unset",
           accessToken |-> "", clientId |-> FALSE ]
    ELSE CoreConstructor(cfg)

\* the web client's constructor without its accessToken test
WebConstructor_AcceptingToken(cfg) ==
    IF cfg.clientId.has \/ cfg.clientSecret.has
    THEN [ error |-> OAuthSecretsInWebClientError, accessMode |-> "unset",
           accessToken |-> "", clientId |-> FALSE ]
    ELSE [ error |-> assertIdentificationCodeCredentials(cfg.identificationCode),
           accessMode |-> "unset", accessToken |-> "", clientId |-> FALSE ]

\* PirschWebClient.constructor: it keeps no credential but the identification
\* code, and has no access mode
WebConstructor(cfg) ==
    IF cfg.clientId.has \/ cfg.clientSecret.has
    THEN [ error |-> OAuthSecretsInWebClientError, accessMode |-> "unset",
           accessToken |-> "", clientId |-> FALSE ]
    ELSE IF cfg.accessToken.has
    THEN [ error |-> SecretsInWebClientError, accessMode |-> "unset",
           accessToken |-> "", clientId |-> FALSE ]
    ELSE [ error |-> assertIdentificationCodeCredentials(cfg.identificationCode),
           accessMode |-> "unset", accessToken |-> "", clientId |-> FALSE ]

Constructor(cfg) ==
    CASE cfg.variant = "node" -> NodeConstructor(cfg)
      [] cfg.variant = "web-api" -> WebApiConstructor(cfg)
      [] cfg.variant = "web" -> WebConstructor(cfg)

-----------------------------------------------------------------------------
(* Payloads *)

\* sequences over S of length at most n
RECURSIVE SeqsUpTo(_, _)
SeqsUpTo(S, n) ==
    IF n = 0 THEN { <<>> }
    ELSE LET shorter == SeqsUpTo(S, n - 1)
         IN  shorter \cup { Append(s, x) : s \in { t \in shorter : Len(t) = n - 1 }, x \in S }

\* PirschHit / PirschSession as far as the core reads them: the page and the
\* do-not-track marker
Hits == [ url : {"/a", "/b"}, dnt : {"1", "0", Undefined} ]
\* PirschBatchHit / PirschBatchSession
BatchItems ==
    { [url |-> "/a", dnt |-> "1", time |-> "t1"],
      [url |-> "/a", dnt |-> Undefined, time |-> "t1"],
      [url |-> "/b", dnt |-> "0", time |-> "t2"] }

\* an optional argument: not passed, or passed with a value
NotPassed == [passed |-> FALSE]
Passed(v) == [passed |-> TRUE, val |-> v]

\* Scalar = string | number | boolean
Scalars == { [kind |-> "string", str |-> "x"], [kind |-> "number", num |-> 7],
             [kind |-> "number", num |-> 42],
             [kind |-> "boolean", bool |-> TRUE], [kind |-> "boolean", bool |-> FALSE] }
Metas == { NotPassed } \cup { Passed([k \in {"plan"} |-> v]) : v \in Scalars }
Durations == { NotPassed, Passed(5) }
EventNames == { "signup" }

\* decimal digits of a non-negative number (Number.prototype.toString)
Digit(d) == << "0", "1", "2", "3", "4", "5", "6", "7", "8", "9" >>[d + 1]
RECURSIVE NumberToString(_)
NumberToString(n) ==
    IF n < 10 THEN Digit(n) ELSE NumberToString(n \div 10) \o Digit(n % 10)

\* the conversion putting strings in quotes
ScalarToString_Quoted(v) ==
    IF v.kind = "string" THEN "'" \o v.str \o "'"
    ELSE IF v.kind = "number" THEN NumberToString(v.num)
    ELSE IF v.bool THEN "true" ELSE "false"

\* the value a meta entry is sent as: a string as it is, everything else
\* as value.toString()
ScalarToString(v) ==
    IF v.kind = "string" THEN v.str
    ELSE IF v.kind = "number" THEN NumberToString(v.num)
    ELSE IF v.bool THEN "true" ELSE "false"

\* PirschCommon.prepareScalarObject
prepareScalarObject(meta) ==
    IF ~meta.passed THEN meta
    ELSE Passed([k \in DOMAIN meta.val |-> ScalarToString(meta.val[k])])

\* the `duration = 0` default parameter
DurationOrDefault(d) == IF d.passed THEN d.val ELSE 0

\* the items of batchEvents
BatchEventItems ==
    { [name |-> "signup", hit |-> [url |-> "/a", dnt |-> "1"], time |-> "t1",
       duration |-> NotPassed, meta |-> NotPassed],
      [name |-> "signup", hit |-> [url |-> "/a", dnt |-> Undefined], time |-> "t1",
       duration |-> NotPassed, meta |-> NotPassed],
      [name |-> "signup", hit |-> [url |-> "/b", dnt |-> "0"], time |-> "t2",
       duration |-> Passed(5),
       meta |-> Passed([k \in {"plan"} |-> [kind |-> "number", num |-> 7]])] }

\* PirschEvent built by event()
EventBody(name, hit, duration, meta) ==
    [ event_name |-> name, event_duration |-> DurationOrDefault(duration),
      event_meta |-> prepareScalarObject(meta), url |-> hit.url, dnt |-> hit.dnt ]

\* PirschBatchEvent built by batchEvents()
BatchEventBody(e) ==
    [ event_name |-> e.name, event_duration |-> DurationOrDefault(e.duration),
      event_meta |-> prepareScalarObject(e.meta), time |-> e.time,
      url |-> e.hit.url, dnt |-> e.hit.dnt ]

\* Array.prototype.filter
Filter(s, Keep(_)) == SelectSeq(s, Keep)

\* Array.prototype.map
Map(s, F(_)) == [ i \in 1 .. Len(s) |-> F(s[i]) ]

\* the arrays passed to the batch calls
BatchHitInputs == SeqsUpTo(BatchItems, MaxBatch)
BatchEventInputs == SeqsUpTo(BatchEventItems, MaxBatch)

\* a batch filter that keeps every item
HitNotDnt_KeepAll(hit) == TRUE

\* the filter keeping only the items that carry dnt = "0"
HitNotDnt_OnlyOptIn(h) == h.dnt = "0"

\* the predicates of the three batch filters
HitNotDnt(hit) == hit.dnt # "1"
EventNotDnt(event) == event.hit.dnt # "1"

\* PirschFilter
Filters == { "last-7-days", "last-30-days" }
\* no query parameters (performGet's default)
NoParameters == "{}"

-----------------------------------------------------------------------------
(* Transport: requests, responses, errors *)

\* bearer tokens the token endpoint answers with
Tokens == { "tok1", "tok2" }
\* HTTP error statuses the API answers with
ErrorStatuses == { 401, 404, 500 }

\* what the HTTP library throws: an AxiosError carrying the response, an
\* AxiosError without one (timeout, network failure), or another Error
RawErrors ==
    { [kind |-> "AxiosResponse", status |-> s] : s \in ErrorStatuses }
    \cup { [kind |-> "AxiosNoResponse", status |-> 0], [kind |-> "Error", status |-> 0] }

\* PirschApiError and its subclasses
ApiError(code) == [name |-> "PirschApiError", code |-> code]
UnknownApiError == [name |-> "PirschUnknownApiError", code |-> 500]
DomainNotFoundApiError == [name |-> "PirschDomainNotFoundApiError", code |-> 404]
InvalidAccessModeApiError(methodName) ==
    [name |-> "PirschInvalidAccessModeApiError", code |-> 401, method |-> methodName]

\* PirschNodeApiClient.toApiError
NodeToApiError(raw) ==
    IF raw.kind = "AxiosResponse" THEN ApiError(raw.status)
    ELSE UnknownApiError

\* a normalization that gives every failure the code 400
WebApiToApiError_AlwaysBadRequest(raw) == ApiError(400)

\* PirschWebApiClient.toApiError
WebApiToApiError(raw) ==
    IF raw.kind = "AxiosResponse" THEN ApiError(raw.status)
    ELSE IF raw.kind = "AxiosNoResponse" THEN ApiError(400)
    ELSE UnknownApiError

toApiError(v, raw) == IF v = "node" THEN NodeToApiError(raw) ELSE WebApiToApiError(raw)

\* the catch block throwing what it caught
Thrown_Raw(exception, raw) == raw

\* `throw exception` of the catch blocks
Thrown(exception, raw) == exception

PendingResponse == [st |-> "pending"]
OkResponse(d) == [st |-> "ok", data |-> d]
ErrResponse(raw) == [st |-> "err", raw |-> raw]

Failures == { ErrResponse(raw) : raw \in RawErrors }
\* answers to a tracking POST (the body of a success is not read)
PostResponses == { OkResponse("") } \cup Failures
\* answers of the token endpoint
TokenResponses == { OkResponse([access_token |-> t]) : t \in Tokens } \cup Failures
\* PirschDomain
Domains == { [hostname |-> "one.example"], [hostname |-> "two.example"] }
\* the JavaScript null
Null == [null |-> TRUE]
DomainResponses == { OkResponse(a) : a \in SeqsUpTo(Domains, MaxDomains) } \cup Failures
\* a decoded statistics array
StatisticsResponses == { OkResponse(<<>>), OkResponse(<< [visitors |-> 1] >>) } \cup Failures
\* answers to the GET of a statistics method
GetResponses(op) == IF op = "domain" THEN DomainResponses ELSE StatisticsResponses

\* one transport invocation: this.post / this.get
Request(kind, path, bearer, data) ==
    [ kind |-> kind, path |-> path, bearer |-> bearer, data |-> data, resp |-> PendingResponse ]

-----------------------------------------------------------------------------
(* Public calls *)

\* the last transport invocation of a call
LastRequest(rec) == rec.trace[Len(rec.trace)]

\* the response of the pending (last) transport invocation is recorded
Answered(rec, resp) == [ rec EXCEPT !.trace[Len(rec.trace)].resp = resp ]

\* this.post(generateUrl(AUTHENTICATION), {client_id, client_secret}) of refreshToken;
\* the call then waits at pcAfter
IssueToken(rec, pcAfter) ==
    [ rec EXCEPT !.pc = pcAfter,
                 !.trace = Append(@, Request("token", Endpoint.token, Undefined, "client_credentials")) ]

\* refreshToken with its early return taken in the wrong mode
refreshTokenNeeded_WrongMode(mode) == mode # "oauth"

\* PirschCoreClient.refreshToken up to its await: nothing in access-token mode
\* (the caller then goes on), the token request otherwise
refreshTokenNeeded(mode) == mode # "access-token"

\* performPost forgetting that it is the retry
performPost_AlwaysRetry(rec, path, data, retry, token) ==
    [ rec EXCEPT !.path = path, !.data = data, !.retry = TRUE, !.pc = "post",
                 !.trace = Append(@, Request("post", path, token, data)) ]

\* performPost refreshing an empty token before the first attempt, as
\* performGet does
performPost_RefreshingFirst(rec, path, data, retry, token) ==
    LET r == [ rec EXCEPT !.path = path, !.data = data, !.retry = retry ]
    IN  IF token = "" /\ retry
        THEN IssueToken(r, "post-token")
        ELSE [ r EXCEPT !.pc = "post", !.trace = Append(@, Request("post", path, token, data)) ]

\* performPost of the earlier core client, which put the configured hostname
\* into the body of a single tracking POST: { hostname: this.hostname, ...data }
performPost_MergingHostname(rec, path, data, retry, token) ==
    LET body == IF path \in { Endpoint.hit, Endpoint.event, Endpoint.session }
                THEN data @@ [ hostname |-> "example.com" ]
                ELSE data
    IN  [ rec EXCEPT !.path = path, !.data = data, !.retry = retry, !.pc = "post",
                     !.trace = Append(@, Request("post", path, token, body)) ]

\* PirschCoreClient.performPost up to its await
performPost(rec, path, data, retry, token) ==
    [ rec EXCEPT !.path = path, !.data = data, !.retry = retry, !.pc = "post",
                 !.trace = Append(@, Request("post", path, token, data)) ]

\* the GET going out without the token
IssueGet_WithoutToken(rec, token) ==
    [ rec EXCEPT !.pc = "get",
                 !.trace = Append(@, Request("get", rec.path, "", rec.data)) ]

\* this.get(...) of performGet
IssueGet(rec, token) ==
    [ rec EXCEPT !.pc = "get",
                 !.trace = Append(@, Request("get", rec.path, token, rec.data)) ]

\* performGet without the refresh of an empty token
performGet_WithoutRefresh(rec, path, parameters, retry, token, mode) ==
    IssueGet([ rec EXCEPT !.path = path, !.data = parameters, !.retry = retry ], token)

\* performGet refreshing an empty token on the retry as well
performGet_RefreshingOnRetry(rec, path, parameters, retry, token, mode) ==
    LET r == [ rec EXCEPT !.path = path, !.data = parameters, !.retry = retry ]
    IN  IF token = "" /\ refreshTokenNeeded(mode)
        THEN IssueToken(r, "get-token")
        ELSE IssueGet(r, token)

\* PirschCoreClient.performGet up to its first await
performGet(rec, path, parameters, retry, token, mode) ==
    LET r == [ rec EXCEPT !.path = path, !.data = parameters, !.retry = retry ]
    IN  IF token = "" /\ retry /\ refreshTokenNeeded(mode)
        THEN IssueToken(r, "get-token")
        ELSE IssueGet(r, token)

\* accessModeCheck testing for the wrong mode
accessModeCheck_WrongMode(mode) == mode = "oauth"

\* PirschCoreClient.accessModeCheck: does it throw
accessModeCheck(mode) == mode = "access-token"

\* the retry condition without the retry flag
ShouldRetry_IgnoringFlag(mode, exception, retry) ==
    mode = "oauth" /\ exception.code = 401

\* the retry condition without the access mode
ShouldRetry_AnyMode(mode, exception, retry) ==
    exception.code = 401 /\ retry

\* the retry condition without the status
ShouldRetry_AnyStatus(mode, exception, retry) ==
    mode = "oauth" /\ retry

\* the retry condition of the first releases: any 401, on any attempt
ShouldRetry_OnEvery401(mode, exception, retry) ==
    exception.code = 401

\* the retry condition of both catch blocks
ShouldRetry(mode, exception, retry) ==
    mode = "oauth" /\ exception.code = 401 /\ retry

-----------------------------------------------------------------------------
(* Requests of the Node http server *)

\* A value that is a string, a string[] or undefined / null: a header of
\* IncomingHttpHeaders, the result of URLSearchParams.get, an Optional<string>
Absent == [ t |-> "undefined" ]
Str(s) == [ t |-> "string", s |-> s ]
Arr(a) == [ t |-> "array", a |-> a ]

\* the truthiness of an Optional<string>: defined and not ""
Truthy(v) == v.t = "string" /\ v.s # ""

\* a || b
Coalesce_Or(a, b) == IF Truthy(a) THEN a ELSE b

\* a ?? b
Coalesce(a, b) == IF a.t = "undefined" THEN b ELSE a

\* no request
NoRequest == [ present |-> FALSE ]
\* no hit built
NoElement == [ present |-> FALSE ]

\* the keys of request.headers (Node delivers header names in lower case)
HeaderNames ==
    { "dnt", "user-agent", "accept-language", "sec-ch-ua", "referer", "referrer",
      "cf-connecting-ip", "x-forwarded-for", "x-client-ip" }

\* the headers every request of the model carries
BaseHeaders ==
    [ n \in HeaderNames |->
        IF n = "user-agent" THEN Str("agent")
        ELSE IF n = "sec-ch-ua" THEN Str("brand")
        ELSE Absent ]

QueryParameterNames == { PIRSCH_REFERRER_QUERY_PARAMETERS[i] : i \in DOMAIN PIRSCH_REFERRER_QUERY_PARAMETERS }

\* the query strings: each referral parameter missing, empty or set
Queries ==
    { [ n \in QueryParameterNames |->
          IF f[n] = 0 THEN Absent ELSE IF f[n] = 1 THEN Str("") ELSE Str("from-" \o n) ]
      : f \in [ QueryParameterNames -> 0 .. 2 ] }

NoQuery == [ n \in QueryParameterNames |-> Absent ]

\* requests that differ in the socket address and the proxy headers
ProxyRequests ==
    { [ present |-> TRUE, url |-> "/a", query |-> NoQuery, remoteAddress |-> ra,
        headers |-> [ BaseHeaders EXCEPT !["cf-connecting-ip"] = cf,
                                         !["x-forwarded-for"] = xff,
                                         !["x-client-ip"] = xci ] ]
      : ra \in { Absent, Str("10.0.0.1") },
        cf \in { Absent, Str(""), Str("1.1.1.1"), Arr(<< "9.9.9.9" >>) },
        xff \in { Absent, Str(""), Str("2.2.2.2") },
        xci \in { Absent, Str("3.3.3.3") } }

\* requests that differ in the referrer headers, the query string and dnt
ReferrerRequests ==
    { [ present |-> TRUE, url |-> "/a", query |-> q, remoteAddress |-> Str("10.0.0.1"),
        headers |-> [ BaseHeaders EXCEPT !["referer"] = referer, !["referrer"] = referrer ] ]
      : q \in Queries,
        referer \in { Absent, Str(""), Str("https://referer.example") },
        referrer \in { Absent, Str(""), Str("https://referrer.example"),
                       Arr(<< "https://first.example", "https://second.example" >>) } }

Requests == ProxyRequests \cup ReferrerRequests

\* the trustedProxyHeaders of a configuration: not set, or a list of header
\* names, one of them outside PIRSCH_PROXY_HEADERS
TrustedProxyHeaderChoices ==
    { NotPassed } \cup
    { Passed(l) : l \in SeqsUpTo({ "cf-connecting-ip", "x-forwarded-for", "x-client-ip" }, MaxTrusted) }

\* headers[name]
HeaderLookup(headers, name) == IF name \in DOMAIN headers THEN headers[name] ELSE Absent

\* PirschNodeApiClient.getHeader
getHeader(headers, name) ==
    LET header == HeaderLookup(headers, name)
    IN  IF header.t = "array"
        THEN IF Len(header.a) = 0 THEN Absent ELSE Str(header.a[1])
        ELSE header

\* the loop of getReferrer over PIRSCH_REFERRER_QUERY_PARAMETERS, from index i
RECURSIVE referrerFromQuery(_, _)
referrerFromQuery(query, i) ==
    IF i > Len(PIRSCH_REFERRER_QUERY_PARAMETERS) THEN Absent
    ELSE LET parameter == query[PIRSCH_REFERRER_QUERY_PARAMETERS[i]]
         IN  IF Truthy(parameter) THEN parameter ELSE referrerFromQuery(query, i + 1)

\* PirschNodeApiClient.getReferrer
getReferrer(req) ==
    LET referrer == Coalesce(getHeader(req.headers, "referer"),
                             Coalesce(getHeader(req.headers, "referrer"), Str("")))
        parameter == referrerFromQuery(req.query, 1)
    IN  IF referrer.s = "" /\ parameter.t = "string" THEN parameter.s ELSE referrer.s

\* a header is trusted whatever its name
IsProxyHeader_Any(header) == TRUE

\* PIRSCH_PROXY_HEADERS.includes(header)
IsProxyHeader(header) ==
    \E i \in DOMAIN PIRSCH_PROXY_HEADERS : PIRSCH_PROXY_HEADERS[i] = header

\* trustedProxyHeaders.filter(...).find(...) of hitFromRequest
trustedHeader(req, list) ==
    LET HasString(header) == HeaderLookup(req.headers, header).t = "string"
        found == SelectSeq(SelectSeq(list, IsProxyHeader), HasString)
    IN  IF Len(found) = 0 THEN Absent ELSE Str(found[1])

\* PirschNodeApiClient.hitFromRequest: the PirschHit it returns
hitFromRequestElement(req, trusted, protocol, hostname) ==
    LET hit0 == [ present |-> TRUE,
                  url |-> [ origin |-> protocol \o "://" \o hostname, path |-> req.url,
                            searchParams |-> req.query ],
                  ip |-> Coalesce(req.remoteAddress, Str("")).s,
                  dnt |-> getHeader(req.headers, "dnt"),
                  user_agent |-> Coalesce(getHeader(req.headers, "user-agent"), Str("")).s,
                  accept_language |-> getHeader(req.headers, "accept-language"),
                  sec_ch_ua |-> getHeader(req.headers, "Sec-CH-UA"),
                  referrer |-> getReferrer(req) ]
        header == IF trusted.passed /\ Len(trusted.val) > 0
                  THEN trustedHeader(req, trusted.val) ELSE Absent
        result == IF header.t = "string" THEN getHeader(req.headers, header.s) ELSE Absent
    IN  IF Truthy(result) THEN [ hit0 EXCEPT !.ip = result.s ] ELSE hit0

-----------------------------------------------------------------------------
(* The web-api client run beside the Node client *)

\* no web-api client constructed yet: the fields of the client and its call
NoTwin ==
    [ ctor |-> "new", ctorError |-> NoError, accessMode |-> "unset", accessToken |-> "",
      call |-> IdleCall ]

-----------------------------------------------------------------------------
(* The browser snippet: its page and its module state *)

\* let pirschConfig: Config; before any assignment
NoPirschConfig == [ assigned |-> FALSE ]

\* no exported function of the snippet was called yet
NoSnippetCall == [ op |-> "none", outcome |-> "none", n |-> 0 ]

\* no page: the snippet is not loaded
BrowserIdle ==
    /\ location = [ hostname |-> << >>, protocol |-> "" ]
    /\ navigator = [ doNotTrack |-> "<null>" ]
    /\ localStorage = [ disable_pirsch |-> "<null>" ]
    /\ pirschConfig = NoPirschConfig
    /\ console = << >>
    /\ xhr = << >>
    /\ snippet = NoSnippetCall

-----------------------------------------------------------------------------
(* Initial state and construction *)

\* no client constructed yet
ClientInit ==
    /\ ctor = "new"
    /\ config = NoConfig
    /\ ctorError = NoError
    /\ variant = "none"
    /\ accessMode = "unset"
    /\ clientId = FALSE
    /\ accessToken = ""
    /\ calls = [ c \in Slots |-> IdleCall ]
    /\ started = 0

\* no request is being handled
RequestIdle ==
    /\ trustedProxyHeaders = NotPassed
    /\ request = NoRequest
    /\ element = NoElement

Init ==
    /\ ClientInit
    /\ RequestIdle
    /\ twin = NoTwin
    /\ BrowserIdle

\* new Pirsch(configuration)
Construct(cfg) ==
    /\ ctor = "new"
    /\ LET r == Constructor(cfg)
       IN  /\ ctor' = IF r.error = NoError THEN "ok" ELSE "failed"
           /\ ctorError' = r.error
           /\ accessMode' = r.accessMode
           /\ accessToken' = r.accessToken
           /\ clientId' = r.clientId
    /\ config' = cfg
    /\ variant' = cfg.variant
    /\ UNCHANGED << calls, started, requestVars, twin, browserVars >>

-----------------------------------------------------------------------------
(* Tracking calls *)

\* a method of PirschCoreClient can be called: a server-side client exists (the
\* web client is no PirschCoreClient) and the slot is free
CanStart(c) ==
    /\ ctor = "ok"
    /\ variant \in {"node", "web-api"}
    /\ calls[c].pc = "idle"
    /\ started < MaxCalls

\* a public call begins and runs to its first await, or to its end
Begin(c, rec) ==
    /\ calls' = [ calls EXCEPT ![c] = rec ]
    /\ started' = started + 1
    /\ UNCHANGED << ctor, config, ctorError, variant, accessMode, clientId, accessToken,
                    requestVars, twin, browserVars >>

\* hit without the do-not-track test
hit_WithoutDnt(c, h) ==
    /\ CanStart(c)
    /\ Begin(c, performPost(NewCall("hit", h), Endpoint.hit, h, TRUE, accessToken))

\* the body of hit up to its await: the call it leaves, given this.accessToken
hitCall(h, token) ==
    IF h.dnt = "1"
    THEN Finish(NewCall("hit", h), Resolved(Undefined))
    ELSE performPost(NewCall("hit", h), Endpoint.hit, h, TRUE, token)

\* PirschCoreClient.hit
hit(c, h) ==
    /\ CanStart(c)
    /\ Begin(c, hitCall(h, accessToken))

\* the body of event up to its await
eventCall(name, h, duration, meta, token) ==
    LET call == NewCall("event", [name |-> name, hit |-> h, duration |-> duration, meta |-> meta])
    IN  IF h.dnt = "1"
        THEN Finish(call, Resolved(Undefined))
        ELSE performPost(call, Endpoint.event, EventBody(name, h, duration, meta), TRUE, token)

\* PirschCoreClient.event
event(c, name, h, duration, meta) ==
    /\ CanStart(c)
    /\ Begin(c, eventCall(name, h, duration, meta, accessToken))

\* the body of session up to its await
sessionCall(s, token) ==
    IF s.dnt = "1"
    THEN Finish(NewCall("session", s), Resolved(Undefined))
    ELSE performPost(NewCall("session", s), Endpoint.session, s, TRUE, token)

\* PirschCoreClient.session
session(c, s) ==
    /\ CanStart(c)
    /\ Begin(c, sessionCall(s, accessToken))

\* the body of batchHits up to its await
batchHitsCall(hits, token) ==
    LET filtered == Filter(hits, HitNotDnt)
    IN  IF Len(filtered) = 0
        THEN Finish(NewCall("batchHits", hits), Resolved(Undefined))
        ELSE performPost(NewCall("batchHits", hits), Endpoint.batchHits, filtered, TRUE, token)

\* PirschCoreClient.batchHits
batchHits(c, hits) ==
    /\ CanStart(c)
    /\ Begin(c, batchHitsCall(hits, accessToken))

\* the body of batchEvents up to its await
batchEventsCall(events, token) ==
    LET filtered == Filter(events, EventNotDnt)
        results == Map(filtered, BatchEventBody)
    IN  IF Len(filtered) = 0
        THEN Finish(NewCall("batchEvents", events), Resolved(Undefined))
        ELSE performPost(NewCall("batchEvents", events), Endpoint.batchEvents, results, TRUE, token)

\* PirschCoreClient.batchEvents
batchEvents(c, events) ==
    /\ CanStart(c)
    /\ Begin(c, batchEventsCall(events, accessToken))

\* the body of batchSessions up to its await
batchSessionsCall(sessions, token) ==
    LET filtered == Filter(sessions, HitNotDnt)
    IN  IF Len(filtered) = 0
        THEN Finish(NewCall("batchSessions", sessions), Resolved(Undefined))
        ELSE performPost(NewCall("batchSessions", sessions), Endpoint.batchSessions, filtered,
                         TRUE, token)

\* PirschCoreClient.batchSessions
batchSessions(c, sessions) ==
    /\ CanStart(c)
    /\ Begin(c, batchSessionsCall(sessions, accessToken))

-----------------------------------------------------------------------------
(* Statistics reads *)

\* the body of a statistics method up to its await
statisticsCall(method, path, parameters, mode, token) ==
    IF accessModeCheck(mode)
    THEN Finish(NewCall(method, parameters), Rejected(InvalidAccessModeApiError(method)))
    ELSE performGet(NewCall(method, parameters), path, parameters, TRUE, token, mode)

\* the body shared by the statistics methods: accessModeCheck, then
\* performFilteredGet
StatisticsRead(c, method, path, parameters) ==
    /\ CanStart(c)
    /\ Begin(c, statisticsCall(method, path, parameters, accessMode, accessToken))

\* PirschCoreClient.domain up to its await
domain(c) == StatisticsRead(c, "domain", Endpoint.domain, NoParameters)

\* PirschCoreClient.visitors
visitors(c, filter) == StatisticsRead(c, "visitors", Endpoint.visitors, filter)

\* PirschCoreClient.totalVisitors
totalVisitors(c, filter) == StatisticsRead(c, "totalVisitors", Endpoint.totalVisitors, filter)

\* PirschCoreClient.keywords
keywords(c, filter) == StatisticsRead(c, "keywords", Endpoint.keywords, filter)

\* domain taking the last element of the array
domainResult_Last(result) ==
    IF Len(result) = 0 THEN DomainNotFoundApiError ELSE result[Len(result)]

\* PirschCoreClient.domain after performGet returned
\* (`result.at(0) ?? error`)
domainResult(result) ==
    IF Len(result) = 0 THEN DomainNotFoundApiError
    ELSE IF result[1] = Null THEN DomainNotFoundApiError
    ELSE result[1]

-----------------------------------------------------------------------------
(* Continuations: a transport invocation returns or throws *)

Resume(c, rec) ==
    /\ calls' = [ calls EXCEPT ![c] = rec ]
    /\ UNCHANGED << ctor, config, ctorError, variant, accessMode, clientId, started,
                    requestVars, twin, browserVars >>

\* the catch block of performPost refreshing after the 401 of the retry too
postContinuation_RefreshingAgain(call, resp, v, mode, token) ==
    LET rec == Answered(call, resp)
        exception == toApiError(v, resp.raw)
    IN  IF resp.st = "ok" THEN Finish(rec, Resolved(Undefined))
        ELSE IF ShouldRetry(mode, exception, TRUE) /\ Len(rec.trace) < 4
        THEN IssueToken(rec, "post-token")
        ELSE Finish(rec, Rejected(Thrown(exception, resp.raw)))

\* the rest of performPost once this.post(...) returned or threw resp, in
\* client variant v
postContinuation(call, resp, v, mode, token) ==
    LET rec == Answered(call, resp)
        exception == toApiError(v, resp.raw)
    IN  IF resp.st = "ok" THEN Finish(rec, Resolved(Undefined))
        ELSE IF ShouldRetry(mode, exception, rec.retry)
        THEN IF refreshTokenNeeded(mode)
             THEN IssueToken(rec, "post-token")
             ELSE performPost(rec, rec.path, rec.data, FALSE, token)
        ELSE Finish(rec, Rejected(Thrown(exception, resp.raw)))

\* the catch block of performPost clearing the token on every failure
PostResponded_ClearingToken(c, resp) ==
    /\ calls[c].pc = "post"
    /\ Resume(c, postContinuation(calls[c], resp, variant, accessMode, accessToken))
    /\ accessToken' = IF resp.st = "ok" THEN accessToken ELSE ""

\* performPost after `await this.post(...)`: return, or the catch block
PostResponded(c, resp) ==
    /\ calls[c].pc = "post"
    /\ Resume(c, postContinuation(calls[c], resp, variant, accessMode, accessToken))
    /\ UNCHANGED accessToken

\* the rest of performGet (and of domain) once this.get(...) returned or
\* threw resp
getContinuation(call, resp, v, mode, token) ==
    LET rec == Answered(call, resp)
        exception == toApiError(v, resp.raw)
    IN  IF resp.st = "ok"
        THEN Finish(rec, Resolved(IF rec.op = "domain" THEN domainResult(resp.data)
                                  ELSE resp.data))
        ELSE IF ShouldRetry(mode, exception, rec.retry)
        THEN IF refreshTokenNeeded(mode)
             THEN IssueToken(rec, "get-retry-token")
             ELSE performGet(rec, rec.path, rec.data, FALSE, token, mode)
        ELSE Finish(rec, Rejected(Thrown(exception, resp.raw)))

\* performGet after `await this.get(...)`: return data (post-processed by
\* domain), or the catch block
GetResponded(c, resp) ==
    /\ calls[c].pc = "get"
    /\ Resume(c, getContinuation(calls[c], resp, variant, accessMode, accessToken))
    /\ UNCHANGED accessToken

\* refreshToken not storing the token it received
RefreshedToken_Dropped(resp) == ""

\* refreshToken leaving the token as it is when the token request fails
RefreshedToken_KeptOnFailure(resp) ==
    IF resp.st = "ok" THEN resp.data.access_token ELSE accessToken

\* the token refreshToken leaves in this.accessToken
RefreshedToken(resp) == IF resp.st = "ok" THEN resp.data.access_token ELSE ""

\* the caller of refreshToken after its `await this.refreshToken()`: the next
\* request goes out with the this.accessToken it reads then
resumeAfterRefresh(rec, token, mode) ==
    CASE rec.pc = "post-token" -> performPost(rec, rec.path, rec.data, FALSE, token)
      [] rec.pc = "get-token" -> IssueGet(rec, token)
      [] rec.pc = "get-retry-token" -> performGet(rec, rec.path, rec.data, FALSE, token, mode)

\* the caller of refreshToken throwing the error refreshToken returned
tokenContinuation_ThrowingRefreshError(call, resp, mode) ==
    IF resp.st = "err"
    THEN Finish(Answered(call, resp), Rejected(UnknownApiError))
    ELSE resumeAfterRefresh(Answered(call, resp), RefreshedToken(resp), mode)

\* the retry of performPost sending the caller's argument instead of the
\* body of the first attempt
tokenContinuation_ResendingInput(call, resp, mode) ==
    LET rec == Answered(call, resp)
        token == RefreshedToken(resp)
    IN  CASE rec.pc = "post-token" -> performPost(rec, rec.path, rec.input, FALSE, token)
          [] rec.pc = "get-token" -> IssueGet(rec, token)
          [] rec.pc = "get-retry-token" -> performGet(rec, rec.path, rec.data, FALSE, token, mode)

\* what the caller of refreshToken goes on with once the token request
\* returned or threw resp and this.accessToken is RefreshedToken(resp)
tokenContinuation(call, resp, mode) ==
    resumeAfterRefresh(Answered(call, resp), RefreshedToken(resp), mode)

\* refreshToken after `await this.post(token)`: the token is stored, or cleared
\* in the catch block (the error is returned, not thrown); then the caller goes
\* on after its `await this.refreshToken()`
TokenResponded(c, resp) ==
    /\ calls[c].pc \in { "post-token", "get-token", "get-retry-token" }
    /\ accessToken' = RefreshedToken(resp)
    /\ Resume(c, tokenContinuation(calls[c], resp, accessMode))

\* the caller's await returns: the slot is free for the next call
CallerObserves(c) ==
    /\ calls[c].pc = "done"
    /\ calls' = [ calls EXCEPT ![c] = IdleCall ]
    /\ UNCHANGED << ctor, config, ctorError, variant, accessMode, clientId, accessToken, started,
                    requestVars, twin, browserVars >>

-----------------------------------------------------------------------------

Next ==
    \/ \E cfg \in Configurations : Construct(cfg)
    \/ \E c \in Slots, h \in Hits : hit(c, h)
    \/ \E c \in Slots, n \in EventNames, h \in Hits, d \in Durations, m \in Metas : event(c, n, h, d, m)
    \/ \E c \in Slots, s \in Hits : session(c, s)
    \/ \E c \in Slots, hits \in BatchHitInputs : batchHits(c, hits)
    \/ \E c \in Slots, events \in BatchEventInputs : batchEvents(c, events)
    \/ \E c \in Slots, sessions \in BatchHitInputs : batchSessions(c, sessions)
    \/ \E c \in Slots : domain(c)
    \/ \E c \in Slots, f \in Filters : visitors(c, f)
    \/ \E c \in Slots, f \in Filters : totalVisitors(c, f)
    \/ \E c \in Slots, f \in Filters : keywords(c, f)
    \/ \E c \in Slots, resp \in PostResponses : PostResponded(c, resp)
    \/ \E c \in Slots : \E resp \in GetResponses(calls[c].op) : GetResponded(c, resp)
    \/ \E c \in Slots, resp \in TokenResponses : TokenResponded(c, resp)
    \/ \E c \in Slots : CallerObserves(c)

Spec == Init /\ [][Next]_vars

-----------------------------------------------------------------------------
(* The Node client handling requests: hitFromRequest *)

\* the configuration of the Node client that handles the requests
RequestClientConfig ==
    [ NoConfig EXCEPT !.accessToken =
        [ has |-> TRUE, prefix |-> TRUE,
          len |-> PIRSCH_ACCESS_TOKEN_LENGTH + PIRSCH_ACCESS_TOKEN_PREFIX_LENGTH ] ]

\* a Node client constructed with hostname, an access token and some
\* trustedProxyHeaders
InitRequest ==
    /\ ctor = "ok"
    /\ config = RequestClientConfig
    /\ ctorError = NodeConstructor(RequestClientConfig).error
    /\ variant = "node"
    /\ accessMode = NodeConstructor(RequestClientConfig).accessMode
    /\ clientId = NodeConstructor(RequestClientConfig).clientId
    /\ accessToken = NodeConstructor(RequestClientConfig).accessToken
    /\ calls = [ c \in Slots |-> IdleCall ]
    /\ started = 0
    /\ trustedProxyHeaders \in TrustedProxyHeaderChoices
    /\ request = NoRequest
    /\ element = NoElement
    /\ twin = NoTwin
    /\ BrowserIdle

\* the http server hands a request to its handler
Incoming(req) ==
    /\ ~ request.present
    /\ request' = req
    /\ UNCHANGED << clientVars, trustedProxyHeaders, element, twin, browserVars >>

\* client.hitFromRequest(request)
hitFromRequest ==
    /\ request.present
    /\ ~ element.present
    /\ element' = hitFromRequestElement(request, trustedProxyHeaders,
                                        PIRSCH_DEFAULT_PROTOCOL, "example.com")
    /\ UNCHANGED << clientVars, trustedProxyHeaders, request, twin, browserVars >>

\* response.end(): the handler is done with the request
Respond ==
    /\ element.present
    /\ request' = NoRequest
    /\ element' = NoElement
    /\ UNCHANGED << clientVars, trustedProxyHeaders, twin, browserVars >>

NextRequest ==
    \/ \E req \in Requests : Incoming(req)
    \/ hitFromRequest
    \/ Respond

SpecRequest == InitRequest /\ [][NextRequest]_vars

-----------------------------------------------------------------------------
(* The Node client and the web-api client side by side: both are           *)
(* constructed from the same configuration, the same calls are made on     *)
(* both, and the transport gives both the same answers.                    *)

InitPair ==
    /\ ClientInit
    /\ RequestIdle
    /\ twin = NoTwin
    /\ BrowserIdle

\* the configurations, as passed to the Node client
NodeConfigurations == { cfg \in Configurations : cfg.variant = "node" }

\* new Pirsch(configuration) of pirsch-sdk and of pirsch-sdk/web-api
PairConstruct(cfg) ==
    /\ ctor = "new"
    /\ twin.ctor = "new"
    /\ LET r == NodeConstructor(cfg)
           w == WebApiConstructor(cfg)
       IN  /\ ctor' = IF r.error = NoError THEN "ok" ELSE "failed"
           /\ ctorError' = r.error
           /\ accessMode' = r.accessMode
           /\ accessToken' = r.accessToken
           /\ clientId' = r.clientId
           /\ twin' = [ twin EXCEPT !.ctor = IF w.error = NoError THEN "ok" ELSE "failed",
                                    !.ctorError = w.error,
                                    !.accessMode = w.accessMode,
                                    !.accessToken = w.accessToken ]
    /\ config' = cfg
    /\ variant' = "node"
    /\ UNCHANGED << calls, started, requestVars, browserVars >>

\* both clients exist and neither has a call in flight
PairCanStart ==
    /\ ctor = "ok"
    /\ twin.ctor = "ok"
    /\ \A c \in Slots : calls[c].pc = "idle"
    /\ twin.call.pc = "idle"
    /\ started < MaxCalls

\* the same public method is called on both clients with the same argument
PairStart(nodeCall, twinCall) ==
    /\ PairCanStart
    /\ calls' = [ c \in Slots |-> nodeCall ]
    /\ twin' = [ twin EXCEPT !.call = twinCall ]
    /\ started' = started + 1
    /\ UNCHANGED << ctor, config, ctorError, variant, accessMode, clientId, accessToken, requestVars, browserVars >>

PairHit(h) == PairStart(hitCall(h, accessToken), hitCall(h, twin.accessToken))

PairEvent(name, h, duration, meta) ==
    PairStart(eventCall(name, h, duration, meta, accessToken),
              eventCall(name, h, duration, meta, twin.accessToken))

PairSession(h) == PairStart(sessionCall(h, accessToken), sessionCall(h, twin.accessToken))

PairBatchHits(hits) ==
    PairStart(batchHitsCall(hits, accessToken), batchHitsCall(hits, twin.accessToken))

PairBatchEvents(events) ==
    PairStart(batchEventsCall(events, accessToken), batchEventsCall(events, twin.accessToken))

PairBatchSessions(sessions) ==
    PairStart(batchSessionsCall(sessions, accessToken), batchSessionsCall(sessions, twin.accessToken))

PairStatistics(method, path, parameters) ==
    PairStart(statisticsCall(method, path, parameters, accessMode, accessToken),
              statisticsCall(method, path, parameters, twin.accessMode, twin.accessToken))

\* what a call waiting at its await goes on with, and this.accessToken after
\* that, for the answer resp
Continuation(call, resp, v, mode, token) ==
    CASE call.pc = "post" ->
            [ call |-> postContinuation(call, resp, v, mode, token), accessToken |-> token ]
      [] call.pc = "get" ->
            [ call |-> getContinuation(call, resp, v, mode, token), accessToken |-> token ]
      [] call.pc \in { "post-token", "get-token", "get-retry-token" } ->
            [ call |-> tokenContinuation(call, resp, mode), accessToken |-> RefreshedToken(resp) ]

\* the answers the transport can give to the invocation a call waits for
ResponsesFor(call) ==
    CASE call.pc = "post" -> PostResponses
      [] call.pc = "get" -> GetResponses(call.op)
      [] call.pc \in { "post-token", "get-token", "get-retry-token" } -> TokenResponses
      [] OTHER -> {}

\* both transports answer the invocation the two calls wait for in the same way
PairResponded(c, resp) ==
    /\ calls[c].pc = twin.call.pc
    /\ LET n == Continuation(calls[c], resp, "node", accessMode, accessToken)
           w == Continuation(twin.call, resp, "web-api", twin.accessMode, twin.accessToken)
       IN  /\ calls' = [ calls EXCEPT ![c] = n.call ]
           /\ accessToken' = n.accessToken
           /\ twin' = [ twin EXCEPT !.call = w.call, !.accessToken = w.accessToken ]
    /\ UNCHANGED << ctor, config, ctorError, variant, accessMode, clientId, started, requestVars, browserVars >>

\* both callers' awaits return
PairObserved(c) ==
    /\ calls[c].pc = "done"
    /\ twin.call.pc = "done"
    /\ calls' = [ calls EXCEPT ![c] = IdleCall ]
    /\ twin' = [ twin EXCEPT !.call = IdleCall ]
    /\ UNCHANGED << ctor, config, ctorError, variant, accessMode, clientId, accessToken, started,
                    requestVars, browserVars >>

NextPair ==
    \/ \E cfg \in NodeConfigurations : PairConstruct(cfg)
    \/ \E h \in Hits : PairHit(h)
    \/ \E n \in EventNames, h \in Hits, d \in Durations, m \in Metas : PairEvent(n, h, d, m)
    \/ \E s \in Hits : PairSession(s)
    \/ \E hits \in BatchHitInputs : PairBatchHits(hits)
    \/ \E events \in BatchEventInputs : PairBatchEvents(events)
    \/ \E sessions \in BatchHitInputs : PairBatchSessions(sessions)
    \/ PairStatistics("domain", Endpoint.domain, NoParameters)
    \/ \E f \in Filters : PairStatistics("visitors", Endpoint.visitors, f)
    \/ \E f \in Filters : PairStatistics("totalVisitors", Endpoint.totalVisitors, f)
    \/ \E f \in Filters : PairStatistics("keywords", Endpoint.keywords, f)
    \/ \E c \in Slots : \E resp \in ResponsesFor(calls[c]) : PairResponded(c, resp)
    \/ \E c \in Slots : PairObserved(c)

SpecPair == InitPair /\ [][NextPair]_vars

-----------------------------------------------------------------------------
(* Two calls in flight on one OAuth client.  Nothing synchronizes them:     *)
(* each runs from one await to the next, and this.accessToken is shared.   *)
(* The refresh is taken in its two runs: refreshToken resumes and writes    *)
(* this.accessToken, then its caller resumes and reads it.                 *)

ConcurrentSlots == { 1, 2 }

\* clientId and clientSecret of the right lengths, no access token
OAuthConfig ==
    [ NoConfig EXCEPT !.clientId = [has |-> TRUE, len |-> PIRSCH_CLIENT_ID_LENGTH],
                      !.clientSecret = [has |-> TRUE, len |-> PIRSCH_CLIENT_SECRET_LENGTH] ]

\* a fresh Node client in OAuth mode on which two calls can be in flight
InitConcurrent ==
    /\ ctor = "ok"
    /\ config = OAuthConfig
    /\ ctorError = NodeConstructor(OAuthConfig).error
    /\ variant = "node"
    /\ accessMode = NodeConstructor(OAuthConfig).accessMode
    /\ clientId = NodeConstructor(OAuthConfig).clientId
    /\ accessToken = NodeConstructor(OAuthConfig).accessToken
    /\ calls = [ c \in ConcurrentSlots |-> IdleCall ]
    /\ started = 0
    /\ RequestIdle
    /\ twin = NoTwin
    /\ BrowserIdle

\* the answers of the transport told apart here: success, 401 and another
\* error status
ConcurrentFailures == { ErrResponse([kind |-> "AxiosResponse", status |-> s]) : s \in {401, 500} }
ConcurrentPostResponses == { OkResponse("") } \cup ConcurrentFailures
ConcurrentGetResponses == { OkResponse(<<>>) } \cup ConcurrentFailures
ConcurrentTokenResponses ==
    { OkResponse([access_token |-> t]) : t \in Tokens } \cup { ErrResponse([kind |-> "AxiosResponse", status |-> 500]) }

\* the call waits at `await this.refreshToken()`
AwaitsRefresh(c) == calls[c].pc \in { "post-token", "get-token", "get-retry-token" }

\* refreshToken after `await this.post(token)`: it stores the token, or clears
\* it in the catch block, and returns
RefreshSettles(c, resp) ==
    /\ AwaitsRefresh(c)
    /\ LastRequest(calls[c]).resp.st = "pending"
    /\ accessToken' = RefreshedToken(resp)
    /\ Resume(c, Answered(calls[c], resp))

\* the caller of refreshToken resumes after `await this.refreshToken()`
AfterRefresh(c) ==
    /\ AwaitsRefresh(c)
    /\ LastRequest(calls[c]).resp.st # "pending"
    /\ Resume(c, resumeAfterRefresh(calls[c], accessToken, accessMode))
    /\ UNCHANGED accessToken

NextConcurrent ==
    \/ \E c \in ConcurrentSlots, h \in Hits : hit(c, h)
    \/ \E c \in ConcurrentSlots, f \in Filters : visitors(c, f)
    \/ \E c \in ConcurrentSlots, resp \in ConcurrentPostResponses : PostResponded(c, resp)
    \/ \E c \in ConcurrentSlots, resp \in ConcurrentGetResponses : GetResponded(c, resp)
    \/ \E c \in ConcurrentSlots, resp \in ConcurrentTokenResponses : RefreshSettles(c, resp)
    \/ \E c \in ConcurrentSlots : AfterRefresh(c)
    \/ \E c \in ConcurrentSlots : CallerObserves(c)

SpecConcurrent == InitConcurrent /\ [][NextConcurrent]_vars

-----------------------------------------------------------------------------
(* The browser snippet (browser.ts): init, hit, event and session on a     *)
(* page.  A host name is the sequence of its characters.                   *)

\* calls of exported functions made on one page
MaxSnippetCalls == 3

hitEndpoint == "https://api.pirsch.io/hit"
eventEndpoint == "https://api.pirsch.io/event"
sessionEndpoint == "https://api.pirsch.io/session"

\* location.hostname of the pages of the model
HostNames ==
    { << "l", "o", "c", "a", "l", "h", "o", "s", "t" >>,
      << "L", "o", "c", "a", "l", "H", "o", "s", "t" >>,
      << "l", "o", "c", "a", "l", "h", "o", "s", "t", ".", "i", "o" >>,
      << "1", "2", "7", ".", "0", ".", "0", ".", "1" >>,
      << "1", "2", "7", ".", "2", "5", "5", ".", "0", ".", "1", "2" >>,
      << "1", "2", "7", ".", "0", ".", "0", ".", "1", "2", "3", "4" >>,
      << "1", "2", "7", ".", "0", ".", "1" >>,
      << "a", ".", "i", "o" >>,
      << >> }

\* the pages: a file: page has an empty host name
Locations ==
    { l \in [ hostname : HostNames, protocol : { "https:", "file:" } ] :
        (l.protocol = "file:") <=> (l.hostname = << >>) }

\* the character in lower case (flag i of the pattern)
LowerCase(ch) ==
    IF ch = "L" THEN "l" ELSE IF ch = "H" THEN "h" ELSE ch

IsDigit(ch) == ch \in { "0", "1", "2", "3", "4", "5", "6", "7", "8", "9" }

\* s starts with the characters of prefix, compared without case
StartsWith(s, prefix) ==
    /\ Len(s) >= Len(prefix)
    /\ \A i \in DOMAIN prefix : LowerCase(s[i]) = prefix[i]

\* s matches (\.[0-9]{1,3}){n}$
RECURSIVE DottedGroups(_, _)
DottedGroups(s, n) ==
    IF n = 0 THEN s = << >>
    ELSE /\ Len(s) >= 2
         /\ s[1] = "."
         /\ \E k \in 1 .. 3 :
               /\ Len(s) >= 1 + k
               /\ \A j \in 2 .. 1 + k : IsDigit(s[j])
               /\ DottedGroups(SubSeq(s, k + 2, Len(s)), n - 1)

\* /^localhost(.*)$|^127(\.[0-9]{1,3}){3}$/is.test(hostname)
IsLocalHostName(hostname) ==
    \/ StartsWith(hostname, << "l", "o", "c", "a", "l", "h", "o", "s", "t" >>)
    \/ /\ StartsWith(hostname, << "1", "2", "7" >>)
       /\ DottedGroups(SubSeq(hostname, 4, Len(hostname)), 3)

\* the Config objects passed to init
SnippetConfigs ==
    [ identificationCode : { "", "code" }, dev : BOOLEAN,
      hitEndpoint : { Undefined, "https://proxy.example/hit" } ]

\* the messages of console.warn and console.error
LocalhostWarning == "Pirsch ignores hits on localhost. You can enable it by setting dev to true."
MissingCodeError == "Error initializing Pirsch: the identification code must be set."
CodeNotSetWarning == "Pirsch identification code not set."

\* a page is loaded; the snippet's module was evaluated and nothing was called
InitBrowser ==
    /\ ClientInit
    /\ RequestIdle
    /\ twin = NoTwin
    /\ location \in Locations
    /\ navigator \in [ doNotTrack : { "<null>", "1" } ]
    /\ localStorage \in [ disable_pirsch : { "<null>", "", "1" } ]
    /\ pirschConfig = NoPirschConfig
    /\ console = << >>
    /\ xhr = << >>
    /\ snippet = NoSnippetCall

\* an exported function was called and ended with the outcome
SnippetCalled(op, outcome) ==
    snippet' = [ op |-> op, outcome |-> outcome, n |-> snippet.n + 1 ]

\* init(config)
browserInit(cfg) ==
    /\ snippet.n < MaxSnippetCalls
    /\ IF ~cfg.dev /\ (IsLocalHostName(location.hostname) \/ location.protocol = "file:")
       THEN /\ console' = Append(console, LocalhostWarning)
            /\ UNCHANGED pirschConfig
       ELSE IF cfg.identificationCode = ""
       THEN /\ console' = Append(console, MissingCodeError)
            /\ UNCHANGED pirschConfig
       ELSE /\ pirschConfig' =
                 [ assigned |-> TRUE, identificationCode |-> cfg.identificationCode,
                   dev |-> cfg.dev,
                   hitEndpoint |-> IF cfg.hitEndpoint = Undefined THEN hitEndpoint
                                   ELSE cfg.hitEndpoint,
                   eventEndpoint |-> eventEndpoint, sessionEndpoint |-> sessionEndpoint ]
            /\ UNCHANGED console
    /\ SnippetCalled("init", "returned")
    /\ UNCHANGED << clientVars, requestVars, twin, location, navigator, localStorage, xhr >>

\* dntOrDisabled(): the truthiness of its result
dntOrDisabled ==
    navigator.doNotTrack = "1" \/ localStorage.disable_pirsch \notin { "<null>", "" }

\* ignoreRequest(): "TypeError" when reading pirschConfig.identificationCode
\* throws because pirschConfig is undefined, else what it returns ("warn":
\* true after the warning)
ignoreRequest ==
    IF ~pirschConfig.assigned THEN "TypeError"
    ELSE IF pirschConfig.identificationCode = "" THEN "warn"
    ELSE IF dntOrDisabled THEN "true"
    ELSE "false"

\* sendHit(""): the GET request it sends
sendHit ==
    [ method |-> "GET", endpoint |-> pirschConfig.hitEndpoint,
      code |-> pirschConfig.identificationCode, href |-> location ]

\* what ignoreRequest() writes to the console
IgnoreRequestLogs ==
    console' = IF ignoreRequest = "warn" THEN Append(console, CodeNotSetWarning) ELSE console

\* hit(): an async function, so an exception rejects the promise it returns
browserHit ==
    /\ snippet.n < MaxSnippetCalls
    /\ IgnoreRequestLogs
    /\ xhr' = IF ignoreRequest = "false" THEN Append(xhr, sendHit) ELSE xhr
    /\ SnippetCalled("hit", IF ignoreRequest = "TypeError" THEN "rejected" ELSE "resolved")
    /\ UNCHANGED << clientVars, requestVars, twin, location, navigator, localStorage, pirschConfig >>

\* event()
browserEvent ==
    /\ snippet.n < MaxSnippetCalls
    /\ IgnoreRequestLogs
    /\ SnippetCalled("event", IF ignoreRequest = "TypeError" THEN "threw" ELSE "returned")
    /\ UNCHANGED << clientVars, requestVars, twin, location, navigator, localStorage,
                    pirschConfig, xhr >>

\* session()
browserSession ==
    /\ snippet.n < MaxSnippetCalls
    /\ IgnoreRequestLogs
    /\ SnippetCalled("session", IF ignoreRequest = "TypeError" THEN "threw" ELSE "returned")
    /\ UNCHANGED << clientVars, requestVars, twin, location, navigator, localStorage,
                    pirschConfig, xhr >>

NextBrowser ==
    \/ \E cfg \in SnippetConfigs : browserInit(cfg)
    \/ browserHit
    \/ browserEvent
    \/ browserSession

SpecBrowser == InitBrowser /\ [][NextBrowser]_vars

-----------------------------------------------------------------------------
(* What a call did, read off its record *)

IsPrimary(invocation) == invocation.kind # "token"
IsTokenRequest(invocation) == invocation.kind = "token"

\* the primary (POST / GET) invocations of a call, in order
Primaries(rec) == SelectSeq(rec.trace, IsPrimary)
NPrimary(rec) == Len(Primaries(rec))
\* the calls of the token endpoint
NRefresh(rec) == Len(SelectSeq(rec.trace, IsTokenRequest))

\* the invocation was answered with HTTP status s
FailedWith(invocation, s) ==
    /\ invocation.resp.st = "err"
    /\ invocation.resp.raw.kind = "AxiosResponse"
    /\ invocation.resp.raw.status = s
Succeeded(invocation) == invocation.resp.st = "ok"
Failed(invocation) == invocation.resp.st = "err"

Done(rec) == rec.pc = "done"

TrackingOps == { "hit", "event", "session", "batchHits", "batchEvents", "batchSessions" }
SingleTrackingOps == { "hit", "event", "session" }
BatchOps == { "batchHits", "batchEvents", "batchSessions" }
StatisticsOps == { "domain", "visitors", "totalVisitors", "keywords" }

\* the call began with the proactive refresh of performGet, which happens
\* when this.accessToken is empty
BeganWithRefresh(rec) == Len(rec.trace) > 0 /\ IsTokenRequest(rec.trace[1])

\* first primary request answered 401, second primary request answered
Retried(rec) ==
    /\ NPrimary(rec) >= 2
    /\ FailedWith(Primaries(rec)[1], 401)
    /\ Primaries(rec)[2].resp.st # "pending"

-----------------------------------------------------------------------------
(* C1: OAuth client, first primary request answered 401, retry answered    *)
(* with success.                                                           *)

RetrySucceeded(rec) ==
    accessMode = "oauth" /\ Done(rec) /\ Retried(rec) /\ Succeeded(Primaries(rec)[2])

\* C1 as stated: a call on an OAuth client whose first primary request fails
\* with 401 and whose retry succeeds makes exactly 2 primary invocations and
\* exactly 1 token request, and resolves.
C1_AsStated ==
    \A c \in Slots :
        RetrySucceeded(calls[c]) =>
            /\ NPrimary(calls[c]) = 2
            /\ NRefresh(calls[c]) = 1
            /\ calls[c].outcome.kind = "resolved"

\* C1 amended: such a call makes exactly 2 primary invocations and resolves;
\* it makes exactly 1 token request, except that a statistics read which began
\* with an empty accessToken makes 2 (the proactive one, then the one after
\* the 401).
C1_RetryOnceThenSuccess ==
    \A c \in Slots :
        RetrySucceeded(calls[c]) =>
            /\ NPrimary(calls[c]) = 2
            /\ NRefresh(calls[c]) = (IF BeganWithRefresh(calls[c]) THEN 2 ELSE 1)
            /\ BeganWithRefresh(calls[c]) => calls[c].op \in StatisticsOps
            /\ calls[c].outcome.kind = "resolved"

C1_Witness ==
    \E c \in Slots :
        /\ RetrySucceeded(calls[c])
        /\ calls[c].op \in StatisticsOps
        /\ ~ BeganWithRefresh(calls[c])
        /\ NRefresh(calls[c]) = 1

-----------------------------------------------------------------------------
(* C2: OAuth client, first primary request and retry both answered 401.    *)

RetryUnauthorized(rec) ==
    accessMode = "oauth" /\ Retried(rec) /\ FailedWith(Primaries(rec)[2], 401)

\* C2 as stated: a call on an OAuth client whose primary request fails with
\* 401 twice makes exactly 2 primary invocations and 1 token request, and its
\* caller gets the second 401; there is no third attempt.
C2_AsStated ==
    \A c \in Slots :
        RetryUnauthorized(calls[c]) =>
            /\ Done(calls[c])
            /\ NPrimary(calls[c]) = 2
            /\ NRefresh(calls[c]) = 1
            /\ calls[c].outcome = Rejected(ApiError(401))

\* C2 amended: such a call ends with the second 401 after exactly 2 primary
\* invocations; it makes exactly 1 token request, except that a statistics
\* read which began with an empty accessToken makes 2.
C2_RetryOnceThenSurface ==
    \A c \in Slots :
        RetryUnauthorized(calls[c]) =>
            /\ Done(calls[c])
            /\ NPrimary(calls[c]) = 2
            /\ NRefresh(calls[c]) = (IF BeganWithRefresh(calls[c]) THEN 2 ELSE 1)
            /\ BeganWithRefresh(calls[c]) => calls[c].op \in StatisticsOps
            /\ calls[c].outcome = Rejected(ApiError(401))

C2_Witness ==
    \E c \in Slots :
        /\ RetryUnauthorized(calls[c])
        /\ calls[c].op \in TrackingOps
        /\ NRefresh(calls[c]) = 1
        /\ calls[c].outcome = Rejected(ApiError(401))

-----------------------------------------------------------------------------
(* C3: access-token client, a request answered 401.                        *)

\* C3: on a client constructed with an access token, a call one of whose
\* requests is answered 401 has made exactly 1 transport invocation and no
\* token request, and is rejected with that 401.
C3_AccessTokenNoRetry ==
    \A c \in Slots :
        ( /\ accessMode = "access-token"
          /\ \E i \in DOMAIN calls[c].trace : FailedWith(calls[c].trace[i], 401) ) =>
            /\ Done(calls[c])
            /\ Len(calls[c].trace) = 1
            /\ NRefresh(calls[c]) = 0
            /\ calls[c].outcome = Rejected(ApiError(401))

C3_Witness ==
    \E c \in Slots :
        /\ accessMode = "access-token"
        /\ Len(calls[c].trace) = 1
        /\ FailedWith(calls[c].trace[1], 401)
        /\ calls[c].outcome = Rejected(ApiError(401))

-----------------------------------------------------------------------------
(* C4: statistics reads on an access-token client.                         *)

\* C4: a statistics read (domain included) on an access-token client is
\* rejected with the invalid-access-mode error without any transport
\* invocation, whatever calls went before.
C4_AccessModeGate ==
    \A c \in Slots :
        ( accessMode = "access-token" /\ calls[c].op \in StatisticsOps ) =>
            /\ Done(calls[c])
            /\ calls[c].trace = <<>>
            /\ calls[c].outcome = Rejected(InvalidAccessModeApiError(calls[c].op))

C4_Witness ==
    \E c \in Slots :
        /\ accessMode = "access-token"
        /\ calls[c].op = "domain"
        /\ started = MaxCalls
        /\ calls[c].trace = <<>>
        /\ calls[c].outcome = Rejected(InvalidAccessModeApiError("domain"))

-----------------------------------------------------------------------------
(* C5: single tracking calls carrying dnt = "1".                           *)

\* the do-not-track marker of the payload of a single tracking call
DntOf(rec) == IF rec.op = "event" THEN rec.input.hit.dnt ELSE rec.input.dnt

Suppressed(rec) == rec.op \in SingleTrackingOps /\ DntOf(rec) = "1"

C5_NoTransport ==
    \A c \in Slots :
        Suppressed(calls[c]) =>
            /\ Done(calls[c])
            /\ calls[c].trace = <<>>
            /\ calls[c].outcome = Resolved(Undefined)

C5_TokenKept ==
    \A c \in Slots :
        ( calls[c].pc = "idle" /\ Suppressed(calls'[c]) ) => accessToken' = accessToken

-----------------------------------------------------------------------------
(* C6: batch tracking calls.                                               *)

BatchDnt(rec, i) ==
    IF rec.op = "batchEvents" THEN rec.input[i].hit.dnt ELSE rec.input[i].dnt

\* k: the number of items of the batch with dnt = "1"
DntCount(rec) == Cardinality({ i \in DOMAIN rec.input : BatchDnt(rec, i) = "1" })

-----------------------------------------------------------------------------
(* C7: the domain lookup.                                                  *)


\* C7: when the GET of the domain lookup returns an array, the call yields
\* the domain-not-found error for the empty array and the first element of
\* any other, whatever follows it.
C7_DomainResult ==
    \A c \in Slots :
        ( /\ calls[c].op = "domain"
          /\ Done(calls[c])
          /\ calls[c].trace # <<>>
          /\ Succeeded(LastRequest(calls[c])) ) =>
            LET array == LastRequest(calls[c]).resp.data
            IN  IF Len(array) = 0
                THEN calls[c].outcome = Resolved(DomainNotFoundApiError)
                ELSE calls[c].outcome = Resolved(array[1])

C7_Witness ==
    \E c \in Slots :
        /\ calls[c].op = "domain"
        /\ Done(calls[c])
        /\ calls[c].trace # <<>>
        /\ Succeeded(LastRequest(calls[c]))
        /\ LET array == LastRequest(calls[c]).resp.data
           IN  /\ Len(array) = 2
               /\ array[1] # array[2]
               /\ calls[c].outcome = Resolved(array[1])

-----------------------------------------------------------------------------
(* C8, C9: credential validation in the constructor.                       *)

\* the errors with which the constructors reject a configuration
ConfigurationErrors ==
    { InvalidClientIdError, InvalidAccessTokenPrefixError, InvalidAccessTokenLengthError,
      MissingCredentialsError, OAuthSecretsInWebClientError }

BadClientId(cfg) == cfg.clientId.has /\ cfg.clientId.len # PIRSCH_CLIENT_ID_LENGTH
BadClientSecret(cfg) == cfg.clientSecret.has /\ cfg.clientSecret.len # PIRSCH_CLIENT_SECRET_LENGTH
BadAccessToken(cfg) ==
    /\ cfg.accessToken.has
    /\ \/ ~ cfg.accessToken.prefix
       \/ cfg.accessToken.len # PIRSCH_ACCESS_TOKEN_LENGTH + PIRSCH_ACCESS_TOKEN_PREFIX_LENGTH

\* the constructor threw a configuration error and nothing was sent
RejectedConfiguration ==
    /\ ctor = "failed"
    /\ ctorError \in ConfigurationErrors
    /\ started = 0
    /\ \A c \in Slots : calls[c].trace = <<>>

\* C8: constructing a client with a clientId of length other than 32, a
\* clientSecret of length other than 64, or an access token without the prefix
\* or of a length other than prefix + 45 fails with a configuration error, and
\* no transport invocation is made.
C8_CredentialValidation ==
    ( ctor # "new" /\ variant \in {"node", "web-api"}
      /\ ( BadClientId(config) \/ BadClientSecret(config) \/ BadAccessToken(config) ) )
        => RejectedConfiguration

\* C9: the constructor fails with a configuration error when the
\* configuration carries neither an access token nor OAuth credentials, and
\* when it carries both.
C9_ExactlyOneVariant ==
    LET oauth == config.clientId.has \/ config.clientSecret.has
        token == config.accessToken.has
    IN  ( ctor # "new" /\ variant \in {"node", "web-api"} /\ (oauth <=> token) )
            => RejectedConfiguration

-----------------------------------------------------------------------------
(* C10: the token refresh fails after a 401.                               *)

\* the i-th transport invocation of the call is a failed token request that
\* followed a primary request answered 401
RefreshFailedAfter401(rec, i) ==
    /\ i > 1
    /\ IsTokenRequest(rec.trace[i])
    /\ Failed(rec.trace[i])
    /\ IsPrimary(rec.trace[i - 1])
    /\ FailedWith(rec.trace[i - 1], 401)

\* C10: when the token refresh that follows a 401 fails, the call is
\* rejected with the refresh failure and makes no further request.
C10_RefreshFailureSurfaced ==
    \A c \in Slots :
        \A i \in DOMAIN calls[c].trace :
            RefreshFailedAfter401(calls[c], i) =>
                /\ Done(calls[c])
                /\ Len(calls[c].trace) = i
                /\ calls[c].outcome = Rejected(toApiError(variant, calls[c].trace[i].resp.raw))

-----------------------------------------------------------------------------
(* C11: clients constructed with an access token.                          *)

\* C11: on a client constructed with an access token the token endpoint is
\* never invoked and accessToken stays the token supplied at construction,
\* whatever calls are made and however the transport answers.
C11_NoRefreshOnAccessToken ==
    ( ctor = "ok" /\ config.accessToken.has ) =>
        /\ accessToken = ConfiguredToken
        /\ \A c \in Slots : NRefresh(calls[c]) = 0

C11_Witness ==
    \E c \in Slots :
        /\ ctor = "ok"
        /\ config.accessToken.has
        /\ started = MaxCalls
        /\ calls[c].op \in TrackingOps
        /\ Done(calls[c])
        /\ calls[c].outcome.kind = "rejected"
        /\ accessToken = ConfiguredToken

-----------------------------------------------------------------------------
(* C12: visitors on an OAuth client without a token.                       *)

\* the step that starts visitors with an empty accessToken issues the token
\* request and nothing else
C12_StartsWithRefresh ==
    \A c \in Slots :
        ( /\ calls[c].pc = "idle"
          /\ calls'[c].op = "visitors"
          /\ accessMode = "oauth"
          /\ accessToken = "" ) =>
            calls'[c].trace = << Request("token", Endpoint.token, Undefined, "client_credentials") >>

\* after the refresh returned a token, the GET of statistics/visitor carries
\* it as bearer, and its decoded array is what the caller receives
C12_ThenGet ==
    \A c \in Slots :
        ( /\ calls[c].op = "visitors"
          /\ BeganWithRefresh(calls[c])
          /\ Succeeded(calls[c].trace[1]) ) =>
            LET rec == calls[c]
            IN  /\ Len(rec.trace) >= 2
                /\ rec.trace[2].kind = "get"
                /\ rec.trace[2].path = Endpoint.visitors
                /\ rec.trace[2].data = rec.input
                /\ rec.trace[2].bearer = rec.trace[1].resp.data.access_token
                /\ Succeeded(rec.trace[2]) =>
                       /\ Done(rec)
                       /\ Len(rec.trace) = 2
                       /\ rec.outcome = Resolved(rec.trace[2].resp.data)

\* C12: visitors(filter) on an OAuth client whose accessToken is empty first
\* refreshes the token, then sends the GET of statistics/visitor with the
\* token the refresh returned as bearer; the caller receives the decoded array.
C12_RefreshThenGet == [][C12_StartsWithRefresh]_vars /\ [] C12_ThenGet

C12_Witness ==
    \E c \in Slots :
        /\ calls[c].op = "visitors"
        /\ Len(calls[c].trace) = 2
        /\ IsTokenRequest(calls[c].trace[1])
        /\ calls[c].trace[1].resp = OkResponse([access_token |-> "tok2"])
        /\ calls[c].trace[2].bearer = "tok2"
        /\ calls[c].outcome = Resolved(<< [visitors |-> 1] >>)

-----------------------------------------------------------------------------
(* C13: the bound on primary requests.                                     *)

\* C13: no call issues its primary request more than 2 times, in either access
\* mode and however the transport answers.
C13_AtMostOneRetry ==
    \A c \in Slots : NPrimary(calls[c]) <= 2

C13_Witness ==
    \E c \in Slots :
        /\ Done(calls[c])
        /\ NPrimary(calls[c]) = 2
        /\ \E i \in DOMAIN calls[c].trace :
              IsTokenRequest(calls[c].trace[i]) /\ Failed(calls[c].trace[i])
        /\ FailedWith(LastRequest(calls[c]), 401)
        /\ calls[c].outcome.kind = "rejected"

-----------------------------------------------------------------------------
(* C14: failures other than 401.                                           *)

\* the i-th transport invocation is a primary request that failed, and not
\* with status 401
FailedOtherThan401(rec, i) ==
    /\ IsPrimary(rec.trace[i])
    /\ Failed(rec.trace[i])
    /\ ~ FailedWith(rec.trace[i], 401)

\* C14: a primary request that fails with anything other than a 401 ends the
\* call: nothing follows it (no token request, no retry) and its normalized
\* error is what the caller gets; when it is the first primary request, the
\* primary request was issued exactly once.
C14_NoRetryOnOtherFailure ==
    \A c \in Slots :
        \A i \in DOMAIN calls[c].trace :
            FailedOtherThan401(calls[c], i) =>
                /\ Done(calls[c])
                /\ i = Len(calls[c].trace)
                /\ calls[c].outcome = Rejected(toApiError(variant, calls[c].trace[i].resp.raw))
                /\ ~ Retried(calls[c]) => NPrimary(calls[c]) = 1

C14_Witness ==
    \E c \in Slots :
        /\ accessMode = "oauth"
        /\ Len(calls[c].trace) = 1
        /\ FailedOtherThan401(calls[c], 1)
        /\ calls[c].trace[1].resp.raw.kind = "AxiosNoResponse"
        /\ calls[c].outcome.kind = "rejected"

-----------------------------------------------------------------------------
(* C15, C16: error normalization.                                          *)

\* the call was rejected with the failure of its last transport invocation
RejectedByTransport(rec) ==
    /\ Done(rec)
    /\ rec.trace # <<>>
    /\ Failed(LastRequest(rec))
    /\ rec.outcome.kind = "rejected"

\* C15: the code of a normalized error is the HTTP status when the raw
\* failure carries a response, and 500 when it carries none.
C15_NormalizedCode ==
    \A c \in Slots :
        RejectedByTransport(calls[c]) =>
            LET raw == LastRequest(calls[c]).resp.raw
            IN  calls[c].outcome.error.code =
                    (IF raw.kind = "AxiosResponse" THEN raw.status ELSE 500)

\* the classes of normalized errors
NormalizedNames ==
    { "PirschApiError", "PirschUnknownApiError", "PirschDomainNotFoundApiError",
      "PirschInvalidAccessModeApiError" }

IsNormalized(e) ==
    /\ { "name", "code" } \subseteq DOMAIN e
    /\ e.name \in NormalizedNames

\* C16: whatever a tracking or statistics call is rejected with is a
\* normalized API error, never the exception the transport raised.
C16_OnlyNormalizedErrors ==
    \A c \in Slots :
        calls[c].outcome.kind = "rejected" => IsNormalized(calls[c].outcome.error)

C16_Witness ==
    \E c \in Slots :
        /\ RejectedByTransport(calls[c])
        /\ calls[c].op \in StatisticsOps
        /\ LastRequest(calls[c]).resp.raw.kind = "Error"
        /\ calls[c].outcome = Rejected(UnknownApiError)

-----------------------------------------------------------------------------
(* C17: the request body of event and batchEvents.                         *)

\* the strings the scalars of the model are sent as
ExpectedString(v) ==
    CASE v = [kind |-> "string", str |-> "x"] -> "x"
      [] v = [kind |-> "number", num |-> 7] -> "7"
      [] v = [kind |-> "number", num |-> 42] -> "42"
      [] v = [kind |-> "boolean", bool |-> TRUE] -> "true"
      [] v = [kind |-> "boolean", bool |-> FALSE] -> "false"

\* body is the event body for the arguments (name, hit, duration, meta) of e
IsEventBodyOf(body, e) ==
    /\ body.event_name = e.name
    /\ body.event_duration = (IF e.duration.passed THEN e.duration.val ELSE 0)
    /\ body.event_meta.passed = e.meta.passed
    /\ e.meta.passed =>
           /\ DOMAIN body.event_meta.val = DOMAIN e.meta.val
           /\ \A k \in DOMAIN e.meta.val : body.event_meta.val[k] = ExpectedString(e.meta.val[k])
    /\ body.url = e.hit.url
    /\ body.dnt = e.hit.dnt

\* C17: the body of every event POST carries the event name, the duration (0
\* when none was passed), the meta mapping with every value as a string (absent
\* when none was passed) and the fields of the hit; every item of a
\* batchEvents POST carries these and its time, for the items that are sent.
C17_EventBody ==
    \A c \in Slots :
        \A i \in DOMAIN calls[c].trace :
            LET rec == calls[c]
                body == rec.trace[i].data
                sent == SelectSeq(rec.input, EventNotDnt)
            IN  /\ ( rec.op = "event" /\ IsPrimary(rec.trace[i]) ) =>
                       /\ IsEventBodyOf(body, rec.input)
                       /\ "time" \notin DOMAIN body
                /\ ( rec.op = "batchEvents" /\ IsPrimary(rec.trace[i]) ) =>
                       /\ Len(body) = Len(sent)
                       /\ \A j \in DOMAIN sent :
                             /\ IsEventBodyOf(body[j], sent[j])
                             /\ body[j].time = sent[j].time

C17_Witness ==
    \E c \in Slots :
        /\ calls[c].op = "event"
        /\ Len(calls[c].trace) = 1
        /\ ~ calls[c].input.duration.passed
        /\ calls[c].input.meta = Passed([k \in {"plan"} |-> [kind |-> "number", num |-> 42]])
        /\ calls[c].trace[1].data.event_duration = 0
        /\ calls[c].trace[1].data.event_meta.val["plan"] = "42"

-----------------------------------------------------------------------------
(* C18: the ip of the hit built from a request.                            *)

\* a request has been handled: request is what hitFromRequest was given,
\* element what it returned
Handled == request.present /\ element.present

\* the socket address, "" when there is none
SocketAddress == IF request.remoteAddress.t = "string" THEN request.remoteAddress.s ELSE ""

\* the configured list of trusted headers, empty when none is configured
TrustedList == IF trustedProxyHeaders.passed THEN trustedProxyHeaders.val ELSE << >>

\* the positions of TrustedList whose header is one of the four proxy headers
\* and has a string value in the request
Winners ==
    { i \in DOMAIN TrustedList :
        /\ TrustedList[i] \in { "cf-connecting-ip", "x-forwarded-for", "forwarded", "x-real-ip" }
        /\ TrustedList[i] \in DOMAIN request.headers
        /\ request.headers[TrustedList[i]].t = "string" }

\* the value of the first of them
WinningValue ==
    LET first == CHOOSE i \in Winners : \A j \in Winners : i <= j
    IN  request.headers[TrustedList[first]].s

\* C18 as stated: the value of the first configured header that is a proxy
\* header and has a string value in the request is the ip of the hit; without
\* such a header the ip is the socket address.
C18_AsStated ==
    Handled => element.ip = (IF Winners # {} THEN WinningValue ELSE SocketAddress)

\* C18 amended: the first configured header that is a proxy header and has a
\* string value in the request decides the ip, and no later header is looked
\* at: its value is the ip when it is not empty, and the ip stays the socket
\* address when it is the empty string or when there is no such header.
C18_FirstTrustedHeader ==
    Handled => element.ip = (IF Winners # {} /\ WinningValue # "" THEN WinningValue
                             ELSE SocketAddress)

C18_Witness ==
    /\ Handled
    /\ trustedProxyHeaders = Passed(<< "x-forwarded-for", "cf-connecting-ip" >>)
    /\ request.headers["x-forwarded-for"] = Str("2.2.2.2")
    /\ request.headers["cf-connecting-ip"] = Str("1.1.1.1")
    /\ request.remoteAddress = Str("10.0.0.1")
    /\ element.ip = "2.2.2.2"

-----------------------------------------------------------------------------
(* C19: the referrer of the hit built from a request.                      *)

\* the value a header yields: the string, the first string of an array, ""
\* when the header is missing
HeaderValue(name) ==
    LET header == request.headers[name]
    IN  IF header.t = "string" THEN header.s
        ELSE IF header.t = "array" /\ Len(header.a) > 0 THEN header.a[1]
        ELSE ""

\* the header is in the request
HeaderPresent(name) ==
    LET header == request.headers[name]
    IN  header.t = "string" \/ ( header.t = "array" /\ Len(header.a) > 0 )

\* the first non-empty value among the query parameters ref, referer,
\* referrer, source, utm_source, "" when there is none
FirstReferralParameter ==
    LET order == << "ref", "referer", "referrer", "source", "utm_source" >>
        set == { i \in DOMAIN order :
                   request.query[order[i]].t = "string" /\ request.query[order[i]].s # "" }
        first == CHOOSE i \in set : \A j \in set : i <= j
    IN  IF set = {} THEN "" ELSE request.query[order[first]].s

\* C19 as stated: the referrer is the Referer header, else the Referrer
\* header, and the query parameters are used only when neither header yields a
\* non-empty value.
C19_AsStated ==
    Handled => element.referrer =
                   (IF HeaderValue("referer") # "" THEN HeaderValue("referer")
                    ELSE IF HeaderValue("referrer") # "" THEN HeaderValue("referrer")
                    ELSE FirstReferralParameter)

\* C19 amended: the referrer is taken from the Referer header when the request
\* has one, even an empty one, and from the Referrer header only when it has
\* none; when the value so taken is empty or there is neither header, the
\* referrer is the first non-empty value among the query parameters ref,
\* referer, referrer, source, utm_source, and empty when there is none.
C19_ReferrerResolution ==
    Handled => element.referrer =
                   (LET taken == IF HeaderPresent("referer") THEN HeaderValue("referer")
                                 ELSE HeaderValue("referrer")
                    IN  IF taken # "" THEN taken ELSE FirstReferralParameter)

C19_Witness ==
    /\ Handled
    /\ ~ HeaderPresent("referer")
    /\ ~ HeaderPresent("referrer")
    /\ request.query["ref"] = Str("")
    /\ request.query["referer"] = Absent
    /\ request.query["referrer"] = Str("from-referrer")
    /\ request.query["source"] = Str("from-source")
    /\ element.referrer = "from-referrer"

-----------------------------------------------------------------------------
(* C20: the Node client and the web-api client, given the same inputs.     *)

\* what an invocation asked of the transport
Asked(invocation) ==
    << invocation.kind, invocation.path, invocation.bearer, invocation.data >>

\* the two calls made the same token and primary requests
SameRequests(a, b) ==
    /\ Len(a.trace) = Len(b.trace)
    /\ \A i \in DOMAIN a.trace :
          i \in DOMAIN b.trace => Asked(a.trace[i]) = Asked(b.trace[i])

HasOAuthKeys(cfg) == cfg.clientId.has \/ cfg.clientSecret.has

\* the Node call was rejected with the unknown error (code 500) and the
\* web-api call with code 400, for the same failure without a response
DifferOnNoResponse(a, b) ==
    /\ RejectedByTransport(a)
    /\ LastRequest(a).resp.raw.kind = "AxiosNoResponse"
    /\ a.outcome = Rejected(UnknownApiError)
    /\ b.outcome = Rejected(ApiError(400))

-----------------------------------------------------------------------------
(* C21: secrets passed to the browser-facing clients.                      *)

\* the configuration carries a secret the constructed client refuses
SecretPassed ==
    \/ variant = "web"
       /\ ( config.clientId.has \/ config.clientSecret.has \/ config.accessToken.has )
    \/ variant = "web-api"
       /\ ( config.clientId.has \/ config.clientSecret.has )

-----------------------------------------------------------------------------
(* C22: the steps that write accessToken.                                  *)

\* in this step the token request call c was waiting for is answered
RefreshCompletes(c) ==
    /\ calls[c].trace # <<>>
    /\ IsTokenRequest(LastRequest(calls[c]))
    /\ LastRequest(calls[c]).resp.st = "pending"
    /\ Len(calls'[c].trace) >= Len(calls[c].trace)
    /\ calls'[c].trace[Len(calls[c].trace)].resp.st # "pending"

C22_Step ==
    ( ctor = "ok" /\ accessToken' # accessToken ) => \E c \in DOMAIN calls : RefreshCompletes(c)

\* C22: on a constructed client accessToken changes only in the step that
\* completes a token refresh; every other step of every call (a suppressed
\* call, a failed access mode check, a request answered with success or with
\* an error) leaves it as it was.
C22_OnlyRefreshWritesToken == [][C22_Step]_vars

\* an OAuth client holds a token from an earlier refresh and a later call was
\* rejected, without a refresh, by an error other than 401
C22_Witness ==
    \E c \in DOMAIN calls :
        /\ accessMode = "oauth"
        /\ accessToken \in Tokens
        /\ Done(calls[c])
        /\ NRefresh(calls[c]) = 0
        /\ Len(calls[c].trace) = 1
        /\ FailedWith(calls[c].trace[1], 500)
        /\ calls[c].outcome.kind = "rejected"

-----------------------------------------------------------------------------
(* C23: accessToken after a failed refresh.                                *)

\* in this step the token request call c was waiting for fails
RefreshFails(c) ==
    /\ RefreshCompletes(c)
    /\ calls'[c].trace[Len(calls[c].trace)].resp.st = "err"

C23_Step == \A c \in DOMAIN calls : RefreshFails(c) => accessToken' = ""

\* C23: when a token request of an OAuth client fails (without a response or
\* with an error status), accessToken is the empty string right after that
\* step, whatever it was before.
C23_FailedRefreshClearsToken == [][C23_Step]_vars

\* a call sent its POST with the token of an earlier refresh, got a 401, its
\* token request failed, and accessToken is empty
C23_Witness ==
    \E c \in DOMAIN calls :
        /\ accessMode = "oauth"
        /\ Len(calls[c].trace) >= 2
        /\ IsPrimary(calls[c].trace[1])
        /\ calls[c].trace[1].bearer \in Tokens
        /\ FailedWith(calls[c].trace[1], 401)
        /\ IsTokenRequest(calls[c].trace[2])
        /\ Failed(calls[c].trace[2])
        /\ accessToken = ""

-----------------------------------------------------------------------------
(* C24: the first transport invocation of a tracking call.                 *)

\* a tracking call that begins in this step and is not suppressed sends its
\* POST with the accessToken of the moment
C24_Begin ==
    \A c \in DOMAIN calls :
        ( /\ calls[c].pc = "idle"
          /\ calls'[c].op \in TrackingOps
          /\ calls'[c].trace # <<>> ) =>
            /\ Len(calls'[c].trace) = 1
            /\ calls'[c].trace[1].kind = "post"
            /\ calls'[c].trace[1].bearer = accessToken

\* a token request of a tracking call directly follows a POST answered 401
C24_TokenOnlyAfter401 ==
    \A c \in DOMAIN calls :
        calls[c].op \in TrackingOps =>
            \A i \in DOMAIN calls[c].trace :
                IsTokenRequest(calls[c].trace[i]) =>
                    /\ i > 1
                    /\ calls[c].trace[i - 1].kind = "post"
                    /\ FailedWith(calls[c].trace[i - 1], 401)

\* C24: a tracking call is never preceded by a proactive refresh: its first
\* transport invocation is the POST with the current accessToken (the empty
\* string on a fresh OAuth client), and a token request occurs only after a
\* POST of the call was answered 401.
C24_NoProactiveRefreshOnTracking == [][C24_Begin]_vars /\ [] C24_TokenOnlyAfter401

\* the first call on a fresh OAuth client is a tracking call: its POST went
\* out with the empty token, was answered 401, and the token request followed
C24_Witness ==
    \E c \in DOMAIN calls :
        /\ accessMode = "oauth"
        /\ started = 1
        /\ calls[c].op \in TrackingOps
        /\ Len(calls[c].trace) >= 2
        /\ calls[c].trace[1].kind = "post"
        /\ calls[c].trace[1].bearer = ""
        /\ FailedWith(calls[c].trace[1], 401)
        /\ IsTokenRequest(calls[c].trace[2])

-----------------------------------------------------------------------------
(* C25: the proactive refresh of a statistics read.                        *)

\* a statistics read that begins in this step and passes the access mode
\* check starts with the token request if accessToken is empty and with the
\* GET, carrying accessToken, if it is not
C25_Begin ==
    \A c \in DOMAIN calls :
        ( /\ calls[c].pc = "idle"
          /\ calls'[c].op \in StatisticsOps
          /\ calls'[c].trace # <<>> ) =>
            /\ Len(calls'[c].trace) = 1
            /\ IF accessToken = ""
               THEN IsTokenRequest(calls'[c].trace[1])
               ELSE /\ calls'[c].trace[1].kind = "get"
                    /\ calls'[c].trace[1].bearer = accessToken

\* past the first attempt a token request only follows a GET answered 401,
\* and once a token request is answered the GET goes out at once, with
\* whatever the refresh left in accessToken
C25_NoRefreshOnRetry ==
    \A c \in DOMAIN calls :
        calls[c].op \in StatisticsOps =>
            \A i \in DOMAIN calls[c].trace :
                IsTokenRequest(calls[c].trace[i]) =>
                    /\ i > 1 =>
                        /\ calls[c].trace[i - 1].kind = "get"
                        /\ FailedWith(calls[c].trace[i - 1], 401)
                    /\ calls[c].trace[i].resp.st # "pending" =>
                        /\ Len(calls[c].trace) > i
                        /\ calls[c].trace[i + 1].kind = "get"
                        /\ calls[c].trace[i + 1].bearer =
                              IF Succeeded(calls[c].trace[i])
                              THEN calls[c].trace[i].resp.data.access_token ELSE ""

\* C25: a statistics read on an OAuth client refreshes proactively exactly
\* when accessToken is empty on the first attempt: with a non-empty token its
\* first transport invocation is the GET, and the retry attempt makes no
\* proactive refresh even when the token is empty.
C25_ProactiveRefreshOnFirstAttempt == [][C25_Begin]_vars /\ [] C25_NoRefreshOnRetry

\* a statistics read began with the GET carrying a token, was answered 401,
\* the refresh failed, and the retry GET went out with the empty token
C25_Witness ==
    \E c \in DOMAIN calls :
        /\ calls[c].op \in StatisticsOps
        /\ Len(calls[c].trace) = 3
        /\ calls[c].trace[1].kind = "get"
        /\ calls[c].trace[1].bearer \in Tokens
        /\ FailedWith(calls[c].trace[1], 401)
        /\ IsTokenRequest(calls[c].trace[2])
        /\ Failed(calls[c].trace[2])
        /\ calls[c].trace[3].kind = "get"
        /\ calls[c].trace[3].bearer = ""
        /\ accessToken = ""

-----------------------------------------------------------------------------
(* C26: the retry request.                                                 *)

\* the position in the trace of the n-th primary request of the call
PrimaryAt(rec, n) ==
    CHOOSE i \in DOMAIN rec.trace :
        /\ IsPrimary(rec.trace[i])
        /\ Len(SelectSeq(SubSeq(rec.trace, 1, i), IsPrimary)) = n

\* what a batch call has to transmit: the items that are not marked do-not-track
Transmitted(rec) ==
    CASE rec.op \in { "batchHits", "batchSessions" } -> Filter(rec.input, HitNotDnt)
      [] rec.op = "batchEvents" -> Map(Filter(rec.input, EventNotDnt), BatchEventBody)
      [] OTHER -> rec.data

\* C26: the second primary request of a call has the kind, the path and the
\* body or query parameters of the first (for a batch, the items not marked
\* do-not-track), so the two differ at most in the bearer token; and the
\* invocation before it is the token request, already answered.
C26_RetryRepeatsRequest ==
    \A c \in DOMAIN calls :
        NPrimary(calls[c]) >= 2 =>
            LET rec == calls[c]
                first == Primaries(rec)[1]
                second == Primaries(rec)[2]
                j == PrimaryAt(rec, 2)
            IN  /\ second.kind = first.kind
                /\ second.path = first.path
                /\ second.data = first.data
                /\ second.data = Transmitted(rec)
                /\ j > 1
                /\ IsTokenRequest(rec.trace[j - 1])
                /\ rec.trace[j - 1].resp.st # "pending"

\* a batch with an item marked do-not-track and one that is not was sent,
\* answered 401 and sent again with the refreshed token
C26_Witness ==
    \E c \in DOMAIN calls :
        /\ calls[c].op = "batchHits"
        /\ NPrimary(calls[c]) = 2
        /\ Len(calls[c].input) > Len(Primaries(calls[c])[1].data)
        /\ Primaries(calls[c])[2].bearer \in Tokens
        /\ Primaries(calls[c])[2].bearer # Primaries(calls[c])[1].bearer

-----------------------------------------------------------------------------
(* C27: every call terminates.                                             *)

\* the transport answers the invocation some call is waiting for
TransportReturns ==
    \E c \in Slots :
        \/ \E resp \in PostResponses : PostResponded(c, resp)
        \/ \E resp \in GetResponses(calls[c].op) : GetResponded(c, resp)
        \/ \E resp \in TokenResponses : TokenResponded(c, resp)

\* where every call stands and which of its invocations have been answered;
\* each step of TransportReturns changes it
Progress ==
    [ c \in Slots |->
        << calls[c].pc, [ i \in DOMAIN calls[c].trace |-> calls[c].trace[i].resp.st ] >> ]

\* every transport invocation eventually returns: axios settles each request
\* with a response, an error or, at the latest, its timeout
SpecLive == Spec /\ WF_Progress(TransportReturns)

\* no call makes more than four transport invocations (token request, GET,
\* token request, GET)
C27_Bounded == \A c \in Slots : Len(calls[c].trace) <= 4

C27_Settles == \A c \in Slots : ( calls[c].pc # "idle" ) ~> Done(calls[c])

\* C27: if every transport invocation eventually returns, every tracking
\* and statistics call eventually resolves or rejects, in both access modes
\* and however the transport answers; a call makes at most four invocations.
C27_EveryCallTerminates == [] C27_Bounded /\ C27_Settles

\* a statistics read on an OAuth client was rejected after the longest run: a
\* failed proactive refresh, a GET answered 401, a second failed refresh and a
\* second GET answered 401
C27_Witness ==
    \E c \in Slots :
        /\ accessMode = "oauth"
        /\ calls[c].op \in StatisticsOps
        /\ Done(calls[c])
        /\ calls[c].outcome.kind = "rejected"
        /\ Len(calls[c].trace) = 4
        /\ Failed(calls[c].trace[1])
        /\ FailedWith(calls[c].trace[2], 401)
        /\ Failed(calls[c].trace[3])
        /\ FailedWith(calls[c].trace[4], 401)

-----------------------------------------------------------------------------
(* C28: two statistics reads that both find the token empty.               *)

\* no invocation of the call has failed
AllSucceeded(rec) == \A i \in DOMAIN rec.trace : rec.trace[i].resp.st # "err"

\* the two calls in flight are the only calls made on the client so far,
\* both found accessToken empty and began with their own token request, and
\* every answer so far is a success
BothRefreshing ==
    /\ started = 2
    /\ \A c \in ConcurrentSlots :
          /\ calls[c].op \in StatisticsOps
          /\ BeganWithRefresh(calls[c])
          /\ AllSucceeded(calls[c])

\* the tokens the token endpoint has returned to the calls in flight
ReturnedTokens ==
    { calls[c].trace[i].resp.data.access_token :
        c \in { d \in ConcurrentSlots : calls[d].trace # <<>> /\ Succeeded(calls[d].trace[1]) },
        i \in { 1 } }

\* each call makes its token request and then its GET with a returned token,
\* is waiting for the transport or for its own resumption, or has resolved;
\* accessToken is a returned token as soon as there is one
C28_Safe ==
    BothRefreshing =>
        /\ \A c \in ConcurrentSlots :
              /\ Len(calls[c].trace) <= 2
              /\ Len(calls[c].trace) = 2 =>
                    /\ calls[c].trace[2].kind = "get"
                    /\ calls[c].trace[2].bearer \in ReturnedTokens
              /\ IF Done(calls[c]) THEN calls[c].outcome.kind = "resolved"
                 ELSE calls[c].pc \in { "get-token", "get" }
        /\ IF ReturnedTokens = {} THEN accessToken = "" ELSE accessToken \in ReturnedTokens

\* the refresh that completes writes its token over whatever is there, and no
\* other step writes accessToken
C28_LastWriterWins ==
    ( BothRefreshing /\ BothRefreshing' ) =>
        /\ \A c \in ConcurrentSlots :
              RefreshCompletes(c) =>
                  accessToken' = calls'[c].trace[Len(calls[c].trace)].resp.data.access_token
        /\ ( \A c \in ConcurrentSlots : ~ RefreshCompletes(c) ) => accessToken' = accessToken

\* C28: when two concurrent calls on an OAuth client both find the token
\* empty, each makes its own token request; if every request succeeds, then
\* in every interleaving both calls resolve, every GET carries a token one of
\* the two refreshes returned, and accessToken ends as the token of the
\* refresh that completed last.
C28_ConcurrentRefreshesAreSafe == [] C28_Safe /\ [][C28_LastWriterWins]_vars

\* both calls resolved; the first call's GET went out with the token the
\* second call's refresh returned, which completed last
C28_Witness ==
    /\ BothRefreshing
    /\ \A c \in ConcurrentSlots : Done(calls[c]) /\ calls[c].outcome.kind = "resolved"
    /\ calls[1].trace[1].resp.data.access_token = "tok1"
    /\ calls[2].trace[1].resp.data.access_token = "tok2"
    /\ calls[1].trace[2].bearer = "tok2"
    /\ accessToken = "tok2"

-----------------------------------------------------------------------------
(* C29: a refresh fails while the other call's token is stored.            *)

\* accessToken is the token that the refresh of call d returned and stored
StoredBy(d) ==
    /\ accessToken \in Tokens
    /\ \E i \in DOMAIN calls[d].trace :
          /\ IsTokenRequest(calls[d].trace[i])
          /\ Succeeded(calls[d].trace[i])
          /\ calls[d].trace[i].resp.data.access_token = accessToken

C29_Step ==
    \A c \in ConcurrentSlots :
        ( RefreshFails(c) /\ \E d \in ConcurrentSlots \ {c} : StoredBy(d) ) =>
            accessToken' = accessToken

\* C29: with two calls in flight on an OAuth client, the failure of one
\* call's refresh leaves in place the token the other call's successful
\* refresh has stored.
C29_FailedRefreshKeepsOtherToken == [][C29_Step]_vars

-----------------------------------------------------------------------------
(* C30: the statistics read that follows a failed refresh.                 *)

\* a token request of the call failed
RefreshFailed(rec) ==
    \E i \in DOMAIN rec.trace : IsTokenRequest(rec.trace[i]) /\ Failed(rec.trace[i])

\* call d has ended, a refresh of it failed, and the client is left without a
\* token
LeftUnauthenticated(d) ==
    /\ Done(calls[d])
    /\ RefreshFailed(calls[d])
    /\ accessToken = ""

\* a statistics read that begins then starts with the token request
C30_Begin ==
    \A c \in ConcurrentSlots, d \in ConcurrentSlots :
        ( /\ c # d
          /\ LeftUnauthenticated(d)
          /\ calls[c].pc = "idle"
          /\ calls'[c].op \in StatisticsOps ) =>
            /\ Len(calls'[c].trace) = 1
            /\ IsTokenRequest(calls'[c].trace[1])

\* a statistics read whose proactive refresh and GET both succeed resolves
\* with what the GET returned
C30_Succeeds ==
    \A c \in ConcurrentSlots :
        ( /\ calls[c].op \in StatisticsOps
          /\ Len(calls[c].trace) >= 2
          /\ IsTokenRequest(calls[c].trace[1])
          /\ Succeeded(calls[c].trace[1])
          /\ Succeeded(calls[c].trace[2]) ) =>
            /\ calls[c].trace[2].kind = "get"
            /\ Len(calls[c].trace) = 2
            /\ Done(calls[c])
            /\ calls[c].outcome = Resolved(calls[c].trace[2].resp.data)

\* C30: a failed refresh is no permanent failure: after a call whose refresh
\* failed and left the OAuth client without a token, the next statistics read
\* makes the token request again before its GET, and resolves if that
\* request and the GET succeed.
C30_RefreshAttemptedAgain == [][C30_Begin]_vars /\ [] C30_Succeeds

\* the first call was rejected after its refresh failed; the statistics
\* read after it refreshed, sent its GET with the new token and resolved
C30_Witness ==
    /\ Done(calls[1])
    /\ RefreshFailed(calls[1])
    /\ calls[1].outcome.kind = "rejected"
    /\ calls[2].op \in StatisticsOps
    /\ Len(calls[2].trace) = 2
    /\ IsTokenRequest(calls[2].trace[1])
    /\ Succeeded(calls[2].trace[1])
    /\ calls[2].trace[2].bearer = calls[2].trace[1].resp.data.access_token
    /\ Succeeded(calls[2].trace[2])
    /\ Done(calls[2])
    /\ calls[2].outcome.kind = "resolved"
    /\ accessToken \in Tokens

-----------------------------------------------------------------------------
(* C31: what follows a refresh that failed after a 401.                    *)

\* what the caller gets when the invocation is the last one of the call
OutcomeOf(rec, invocation) ==
    IF Succeeded(invocation)
    THEN Resolved(CASE invocation.kind = "post" -> Undefined
                    [] rec.op = "domain" -> domainResult(invocation.resp.data)
                    [] OTHER -> invocation.resp.data)
    ELSE Rejected(toApiError(variant, invocation.resp.raw))

-----------------------------------------------------------------------------
(* C32: the number of token requests of a call.                            *)

\* C32: a tracking call makes at most one token request, a statistics read
\* at most two (one before its first GET when the token is empty, one after
\* a 401), and a call on a client constructed with an access token none.
C32_TokenRequestsBounded ==
    \A c \in Slots :
        /\ calls[c].op \in TrackingOps => NRefresh(calls[c]) <= 1
        /\ calls[c].op \in StatisticsOps =>
              /\ NRefresh(calls[c]) <= 2
              /\ NRefresh(calls[c]) = 2 =>
                    /\ IsTokenRequest(calls[c].trace[1])
                    /\ FailedWith(calls[c].trace[2], 401)
                    /\ IsTokenRequest(calls[c].trace[3])
        /\ accessMode = "access-token" => NRefresh(calls[c]) = 0

\* a statistics read made both token requests
C32_Witness ==
    \E c \in Slots :
        /\ calls[c].op \in StatisticsOps
        /\ NRefresh(calls[c]) = 2
        /\ Done(calls[c])

-----------------------------------------------------------------------------
(* C33: the items a batch call transmits.                                  *)

\* the positions of the input items that are not marked do-not-track
KeptPositions(rec) == { i \in DOMAIN rec.input : BatchDnt(rec, i) # "1" }

\* the k-th of them, counted from the front
KeptPosition(rec, k) ==
    CHOOSE i \in KeptPositions(rec) :
        Cardinality({ j \in KeptPositions(rec) : j <= i }) = k

PayloadOf(rec) ==
    IF rec.op = "event"
    THEN EventBody(rec.input.name, rec.input.hit, rec.input.duration, rec.input.meta)
    ELSE rec.input

\* C34 (as stated): the body of every POST of hit, event and session carries
\* a hostname field.
C34_BodyHasHostname ==
    \A c \in Slots :
        calls[c].op \in SingleTrackingOps =>
            \A i \in DOMAIN calls[c].trace :
                IsPrimary(calls[c].trace[i]) =>
                    "hostname" \in DOMAIN calls[c].trace[i].data

\* C34 (amended): the body of every POST of hit, event and session, first
\* attempt and retry, is the caller's payload as it is: every field of the
\* caller's hit is in it with the caller's value, an event adds event_name,
\* event_duration and event_meta, and the client adds no hostname field.
C34_BodyIsPayload ==
    \A c \in Slots :
        calls[c].op \in SingleTrackingOps =>
            \A i \in DOMAIN calls[c].trace :
                IsPrimary(calls[c].trace[i]) =>
                    LET rec == calls[c]
                        sent == rec.trace[i].data
                        given == IF rec.op = "event" THEN rec.input.hit ELSE rec.input
                    IN  /\ DOMAIN sent = DOMAIN PayloadOf(rec)
                        /\ \A f \in DOMAIN given : sent[f] = given[f]
                        /\ rec.op = "event" =>
                              /\ sent.event_name = rec.input.name
                              /\ sent.event_meta = prepareScalarObject(rec.input.meta)
                        /\ "hostname" \notin DOMAIN sent

\* an event was posted twice (first attempt and retry) and both bodies carry
\* the hit's url and no hostname
C34_Witness ==
    \E c \in Slots :
        /\ calls[c].op = "event"
        /\ NPrimary(calls[c]) = 2
        /\ \A n \in 1 .. 2 :
              /\ Primaries(calls[c])[n].data.url = calls[c].input.hit.url
              /\ "hostname" \notin DOMAIN Primaries(calls[c])[n].data

(* C35: which constraint a rejected access token violated.                 *)

\* a server-side constructor validated an access token: the configuration
\* has one, and the web-api constructor did not reject OAuth secrets first
AccessTokenValidated ==
    /\ ctor # "new"
    /\ variant \in { "node", "web-api" }
    /\ config.accessToken.has
    /\ variant = "web-api" => ~config.clientId.has /\ ~config.clientSecret.has

\* C35: a server-side constructor given an access token that does not start
\* with the prefix throws the prefix error, whatever the token's length; given
\* one that starts with the prefix and whose length is not prefix length + 45
\* it throws the length error; the two errors differ, and no other token is
\* rejected.
C35_TokenErrorNamesConstraint ==
    AccessTokenValidated =>
        LET token == config.accessToken
            total == PIRSCH_ACCESS_TOKEN_PREFIX_LENGTH + PIRSCH_ACCESS_TOKEN_LENGTH
        IN  /\ ~token.prefix => ctor = "failed" /\ ctorError = InvalidAccessTokenPrefixError
            /\ token.prefix /\ token.len # total =>
                  ctor = "failed" /\ ctorError = InvalidAccessTokenLengthError
            /\ token.prefix /\ token.len = total => ctor = "ok" /\ ctorError = NoError
            /\ InvalidAccessTokenPrefixError # InvalidAccessTokenLengthError

\* a token violating both constraints was rejected with the prefix error
C35_Witness ==
    /\ AccessTokenValidated
    /\ ~config.accessToken.prefix
    /\ config.accessToken.len # PIRSCH_ACCESS_TOKEN_PREFIX_LENGTH + PIRSCH_ACCESS_TOKEN_LENGTH
    /\ ctorError = InvalidAccessTokenPrefixError

(* C36: which OAuth credential the constructor's error reports.            *)

\* the Node constructor validated the OAuth credentials: no access token, and
\* a clientId or a clientSecret in the configuration
OauthValidated ==
    /\ ctor # "new"
    /\ variant = "node"
    /\ ~config.accessToken.has
    /\ config.clientId.has \/ config.clientSecret.has

\* the error thrown for a clientId of wrong length
WrongClientIdError ==
    assertOauthCredentials([has |-> TRUE, len |-> PIRSCH_CLIENT_ID_LENGTH + 1],
                           [has |-> TRUE, len |-> PIRSCH_CLIENT_SECRET_LENGTH])

\* C36: the error thrown for a clientSecret of wrong length with a valid
\* clientId differs from the error thrown for a clientId of wrong length, and
\* a configuration with a clientSecret and no clientId fails with a
\* configuration error, not with a TypeError.
C36_ErrorNamesCredential ==
    OauthValidated =>
        /\ ( /\ config.clientId.has /\ config.clientId.len = PIRSCH_CLIENT_ID_LENGTH
             /\ config.clientSecret.has /\ config.clientSecret.len # PIRSCH_CLIENT_SECRET_LENGTH )
               => ctor = "failed" /\ ctorError # WrongClientIdError
        /\ ( config.clientSecret.has /\ ~config.clientId.has )
               => ctor = "failed" /\ ctorError.kind = "Error"

(* C37: headers that are not trusted and the ip of the hit.                *)

\* request.socket.remoteAddress, the empty string when the socket has none
RawSocketAddress(req) ==
    IF req.remoteAddress.t = "string" THEN req.remoteAddress.s ELSE ""

\* the header names that are configured as trusted and are on the allow-list
AllowedTrusted(trusted) ==
    IF trusted.passed
    THEN { trusted.val[i] : i \in DOMAIN trusted.val } \cap
         { "cf-connecting-ip", "x-forwarded-for", "forwarded", "x-real-ip" }
    ELSE {}

\* the two requests come from the same socket address and agree on the headers in names
SameOn(names, r1, r2) ==
    /\ r1.remoteAddress = r2.remoteAddress
    /\ \A n \in names : r1.headers[n] = r2.headers[n]

\* C37: when trustedProxyHeaders is not configured, is empty or names only
\* headers outside the allow-list, the ip of the hit built by hitFromRequest
\* is the socket address, whatever headers the request carries; and in every
\* configuration two requests from the same socket address that agree on the
\* configured allow-listed headers get the same ip.
C37_UntrustedHeadersIgnored ==
    element.present =>
        /\ AllowedTrusted(trustedProxyHeaders) = {} =>
              element.ip = RawSocketAddress(request)
        /\ \A other \in ProxyRequests :
              SameOn(AllowedTrusted(trustedProxyHeaders), request, other) =>
                  hitFromRequestElement(other, trustedProxyHeaders,
                                        PIRSCH_DEFAULT_PROTOCOL, "example.com").ip = element.ip

\* x-client-ip, which is not on the allow-list, is the only configured header,
\* the request carries it together with cf-connecting-ip and x-forwarded-for,
\* and the ip is the socket address
C37_Witness ==
    /\ element.present
    /\ trustedProxyHeaders = Passed(<< "x-client-ip" >>)
    /\ request.headers["x-client-ip"] = Str("3.3.3.3")
    /\ request.headers["cf-connecting-ip"] = Str("1.1.1.1")
    /\ request.headers["x-forwarded-for"] = Str("2.2.2.2")
    /\ element.ip = "10.0.0.1"

(* C38: the browser snippet on a localhost page.                           *)

\* the page is one init ignores unless dev is set
LocalPage == IsLocalHostName(location.hostname) \/ location.protocol = "file:"

\* an init without dev returned at the localhost test
InitIgnored == \E i \in DOMAIN console : console[i] = LocalhostWarning

\* hit, event or session is called in this step
TrackingCalled ==
    /\ snippet'.n = snippet.n + 1
    /\ snippet'.op \in { "hit", "event", "session" }

\* C38: on a localhost, 127.x.x.x or file: page, once init was called without
\* dev, every call of hit, event or session sends no request and ends without
\* an error (it returns, and the promise of hit resolves).
C38_IgnoredOnLocalhost ==
    [][ (LocalPage /\ InitIgnored /\ TrackingCalled) =>
            /\ xhr' = xhr
            /\ snippet'.outcome \in { "returned", "resolved" } ]_vars

-----------------------------------------------------------------------------
(* Events with metadata of several keys: a client with an access token     *)
(* sends events whose meta argument ranges over the mappings of up to      *)
(* three keys.                                                             *)

MetaKeys == { "plan", "seats", "trial" }

\* the scalar values of the metadata, strings that look like converted
\* numbers and booleans among them
MetaScalars ==
    Scalars \cup { [kind |-> "string", str |-> "7"], [kind |-> "string", str |-> "true"] }

\* Record<string, Scalar>, possibly empty, or no argument
ScalarObjects ==
    { NotPassed } \cup
    { Passed(m) : m \in UNION { [ keys -> MetaScalars ] : keys \in SUBSET MetaKeys } }

\* the configuration of the client that sends the events
MetaClientConfig == [ RequestClientConfig EXCEPT !.variant = "node" ]

NextMeta ==
    \/ Construct(MetaClientConfig)
    \/ \E c \in Slots, h \in Hits, d \in Durations, m \in ScalarObjects :
          event(c, "signup", h, d, m)
    \/ \E c \in Slots, resp \in PostResponses : PostResponded(c, resp)
    \/ \E c \in Slots : CallerObserves(c)

SpecMeta == Init /\ [][NextMeta]_vars

-----------------------------------------------------------------------------
(* C39: prepareScalarObject keeps the keys and is idempotent.              *)

\* a mapping of strings as a Record<string, Scalar>
AsScalarObject(prepared) ==
    IF ~prepared.passed THEN prepared
    ELSE Passed([ k \in DOMAIN prepared.val |-> [kind |-> "string", str |-> prepared.val[k]] ])

\* the strings a converted value can be
ConvertedStrings == { "x", "7", "42", "true", "false" }

\* C39: the event_meta of every event sent is prepareScalarObject of the meta
\* argument; it is absent when the argument is absent, else it has exactly
\* the keys of the argument and a string under each, and prepareScalarObject
\* applied to it returns it unchanged.
C39_PrepareScalarObject ==
    \A c \in Slots :
        calls[c].op = "event" =>
            \A i \in DOMAIN calls[c].trace :
                LET given == calls[c].input.meta
                    prepared == calls[c].trace[i].data.event_meta
                IN  /\ ~given.passed => prepared = NotPassed
                    /\ given.passed =>
                          /\ prepared.passed
                          /\ DOMAIN prepared.val = DOMAIN given.val
                          /\ \A k \in DOMAIN prepared.val : prepared.val[k] \in ConvertedStrings
                    /\ prepareScalarObject(AsScalarObject(prepared)) = prepared

\* an event was sent whose meta has a string, a number and a boolean under
\* three keys, each converted to its own string
C39_Witness ==
    \E c \in Slots :
        /\ calls[c].op = "event"
        /\ calls[c].trace # << >>
        /\ calls[c].input.meta =
              Passed([ plan |-> [kind |-> "string", str |-> "x"],
                       seats |-> [kind |-> "number", num |-> 42],
                       trial |-> [kind |-> "boolean", bool |-> FALSE] ])
        /\ calls[c].trace[1].data.event_meta =
              Passed([ plan |-> "x", seats |-> "42", trial |-> "false" ])

====
